---- MODULE Spec2Model ----
(***************************************************************************)
(* State-machine model of minushalf's fractionary conduction correction    *)
(* (minushalf/corrections/vasp/conduction_fractionary.py) and of the       *)
(* helpers it drives.  The file system is part of the state: a path is a   *)
(* sequence of names relative to the working directory and fs maps every   *)
(* existing path to a directory or to a file with its content.             *)
(***************************************************************************)
EXTENDS Integers, Sequences, FiniteSets, TLC

VARIABLES
    fs,                       \* file system: existing path -> node
    atoms,                    \* self.atoms
    cbm_projection,           \* self.cbm_projection (a DataFrame)
    pc,                       \* position of execute()
    corrections_index,        \* self.corrections_index
    sum_correction_percentual,\* self.sum_correction_percentual
    cuts_per_atom_orbital,    \* local of execute()
    gap,                      \* local of execute()
    target,                   \* number of the target the loop of execute() is at
    atom_potential,           \* self.atom_potential
    raised,                   \* exception that left the running operation, or "none"
    stages,                   \* history: stages entered, in order
    calls,                    \* history: what the last call did, in order
    fs0,                      \* history: the file system before the last call
    call,                     \* history: the last direct call and its arguments
    evals,                    \* history: the objective evaluations made
    count,                    \* number of direct calls made
    search,                   \* the run of ternary_search under way
    input_file,               \* the InputFile under test and its last operation
    vtotal,                   \* the VTOTAL file read and what reading it gave
    band_structure            \* the eigenvalues read and the band-gap report made

vars == <<fs, atoms, cbm_projection, pc, corrections_index,
          sum_correction_percentual, cuts_per_atom_orbital, gap, target,
          atom_potential, raised, stages, calls, fs0, call, evals, count,
          search, input_file, vtotal, band_structure>>

\* the variables of the orchestrator
orchestrator == <<fs, atoms, cbm_projection, pc, corrections_index,
                  sum_correction_percentual, cuts_per_atom_orbital, gap, target,
                  atom_potential, raised, stages, calls, fs0, call, evals, count>>

(***************************************************************************)
(* Bounds of the model.                                                    *)
(***************************************************************************)
MaxCell == 6          \* cells of a projection table are 4..MaxCell

(***************************************************************************)
(* Python values.  Labels of a DataFrame are strings or numbers.           *)
(***************************************************************************)
StrV(s) == [tag |-> "str", s |-> s, n |-> 0]
NumV(n) == [tag |-> "num", s |-> "", n |-> n]
None == [tag |-> "none", s |-> "", n |-> 0]

\* "{}".format(v)
Format(v) == IF v.tag = "str" THEN v.s ELSE ToString(v.n)

\* str.lower() / str.upper() on the names the model uses
Lower(s) ==
    CASE s = "Ga" -> "ga"
      [] s = "N"  -> "n"
      [] s = "POTCAR" -> "potcar"
      [] OTHER -> s

Upper(s) ==
    CASE s = "potcar" -> "POTCAR"
      [] s = "ga" -> "GA"
      [] s = "n"  -> "N"
      [] OTHER -> s

(***************************************************************************)
(* File system.                                                            *)
(***************************************************************************)
Dir == [kind |-> "dir", data |-> <<>>]
File(d) == [kind |-> "file", data |-> d]

IsPrefix(p, q) == Len(p) <= Len(q) /\ SubSeq(q, 1, Len(p)) = p
Parent(p) == SubSeq(p, 1, Len(p) - 1)

\* os.path.join
Join(p, name) == Append(p, name)

\* os.path.exists
Exists(f, p) == p \in DOMAIN f
IsDirectory(f, p) == Exists(f, p) /\ f[p].kind = "dir"
IsFile(f, p) == Exists(f, p) /\ f[p].kind = "file"

\* The outcome of a call: the exception it raised ("none" when it returned),
\* the file system it left, the effects it logged, the stages it entered, the
\* value it assigned to self.atom_potential (None when it assigned none) and
\* the value it returned.
Outcome(e, f, v) ==
    [exc |-> e, fs |-> f, calls |-> <<>>, stages |-> <<>>, ap |-> None, value |-> v]
Ok(f) == Outcome("none", f, None)
Raise(e, f) == Outcome(e, f, None)
Value(f, v) == Outcome("none", f, v)

\* k after r: the histories of r come before those of k
After(r, k) ==
    [k EXCEPT !.calls = r.calls \o @, !.stages = r.stages \o @,
              !.ap = IF @ = None THEN r.ap ELSE @]
\* sequential composition: an exception of r skips the rest K of the body
Then(r, K(_)) == IF r.exc # "none" THEN r ELSE After(r, K(r.fs))
ThenV(r, K(_, _)) == IF r.exc # "none" THEN r ELSE After(r, K(r.fs, r.value))
\* r with the event logged when r returned / whether it returned or not
Event(op, path, n) == [op |-> op, path |-> path, n |-> n]
Log(r, event) == IF r.exc = "none" THEN [r EXCEPT !.calls = Append(@, event)] ELSE r
LogCall(event, r) == [r EXCEPT !.calls = <<event>> \o @]
Enter(stage, r) == [r EXCEPT !.stages = <<stage>> \o @]

\* a component of the path above its last one is a regular file
BeneathFile(f, p) == \E k \in 0..(Len(p) - 1) : IsFile(f, SubSeq(p, 1, k))

\* the error of a system call on a path that does not exist: ENOTDIR when the
\* path lies beneath a regular file, ENOENT otherwise
NoEntry(f, p) ==
    IF BeneathFile(f, p) THEN "NotADirectoryError" ELSE "FileNotFoundError"

\* shutil.rmtree(p)
Rmtree(f, p) ==
    IF ~Exists(f, p) THEN Raise(NoEntry(f, p), f)
    ELSE IF f[p].kind = "file" THEN Raise("NotADirectoryError", f)
    ELSE Ok([q \in {r \in DOMAIN f : ~IsPrefix(p, r)} |-> f[q]])

\* os.mkdir(p)
Mkdir(f, p) ==
    IF Exists(f, p) THEN Raise("FileExistsError", f)
    ELSE IF ~Exists(f, Parent(p)) \/ BeneathFile(f, p) THEN Raise(NoEntry(f, p), f)
    ELSE Ok((p :> Dir) @@ f)

\* open(p, "w") followed by write(d) and close()
WriteFile(f, p, d) ==
    IF ~Exists(f, Parent(p)) \/ BeneathFile(f, p) THEN Raise(NoEntry(f, p), f)
    ELSE IF IsDirectory(f, p) THEN Raise("IsADirectoryError", f)
    ELSE Ok((p :> File(d)) @@ f)

\* open(p, "r"): the exception it raises, or "none"
OpenRead(f, p) ==
    IF ~Exists(f, p) THEN NoEntry(f, p)
    ELSE IF f[p].kind = "dir" THEN "IsADirectoryError"
    ELSE "none"

\* os.remove(p)
Remove(f, p) ==
    IF ~Exists(f, p) THEN Raise(NoEntry(f, p), f)
    ELSE IF f[p].kind = "dir" THEN Raise("IsADirectoryError", f)
    ELSE Ok([q \in DOMAIN f \ {p} |-> f[q]])

(***************************************************************************)
(* Fields set by __init__.                                                 *)
(***************************************************************************)
root_folder == <<"root">>
potential_filename == "POTCAR"
potential_folder == <<"valence_potfiles">>
conduction_potfiles_folder == <<"conduction_potfiles">>
minimum_percentual == 5

\* software_factory.get_potential_class().get_name() joined with the atom
PotentialFilename(atom) == Upper(potential_filename) \o "." \o Lower(atom)

(***************************************************************************)
(* pandas.DataFrame: index (row labels), columns and one cell for every    *)
(* (column, row).  df[a][b] selects COLUMN a, then ROW b of that column.   *)
(***************************************************************************)
Range(s) == {s[i] : i \in 1..Len(s)}

HasLoc(df, a, b) == a \in Range(df.columns) /\ b \in Range(df.index)
\* df[a][b]; KeyError when HasLoc is false
Loc(df, a, b) == df.cell[<<a, b>>]

\* itertools.product(rows, columns)
Product(rows, columns) ==
    [k \in 1..(Len(rows) * Len(columns)) |->
        <<rows[((k - 1) \div Len(columns)) + 1],
          columns[((k - 1) % Len(columns)) + 1]>>]

(***************************************************************************)
(* _make_conduction_potential_folder                                       *)
(***************************************************************************)
RECURSIVE CopyPotfiles(_, _, _)
\* the for loop of _make_conduction_potential_folder, from atom number i
CopyPotfiles(f, as, i) ==
    IF i > Len(as) THEN Ok(f)
    ELSE LET potential_path == Join(potential_folder, PotentialFilename(as[i]))
             new_potential_path == Join(conduction_potfiles_folder,
                                        PotentialFilename(as[i]))
         IN IF OpenRead(f, potential_path) # "none"
            THEN \* finally: potential_file is unbound in the first iteration
                 Raise(IF i = 1 THEN "UnboundLocalError"
                       ELSE OpenRead(f, potential_path), f)
            ELSE Then(WriteFile(f, new_potential_path, f[potential_path].data),
                      LAMBDA f1 : CopyPotfiles(f1, as, i + 1))

RmtreeIfExists(f, p) == IF Exists(f, p) THEN Rmtree(f, p) ELSE Ok(f)

\* a variant that keeps a folder it finds instead of removing it
MakeFolderKeepingOld(f, as) ==
    Then(IF Exists(f, conduction_potfiles_folder) THEN Ok(f)
         ELSE Mkdir(f, conduction_potfiles_folder), LAMBDA f1 :
    CopyPotfiles(f1, as, 1))

MakeConductionPotentialFolder(f, as) ==
    Then(RmtreeIfExists(f, conduction_potfiles_folder), LAMBDA f1 :
    Then(Mkdir(f1, conduction_potfiles_folder), LAMBDA f2 :
    CopyPotfiles(f2, as, 1)))

(***************************************************************************)
(* _get_corrections_indexes                                                *)
(***************************************************************************)
RECURSIVE SelectLoop(_, _, _, _)
\* the for loop over itertools.product, from pair number k, with the
\* dictionary built so far
SelectLoop(df, pairs, k, correction_indexes) ==
    IF k > Len(pairs) THEN [exc |-> "none", value |-> correction_indexes]
    ELSE LET row == pairs[k][1]
             column == pairs[k][2]
         IN IF ~HasLoc(df, row, column)
            THEN [exc |-> "KeyError", value |-> correction_indexes]
            ELSE IF Loc(df, row, column) >= minimum_percentual
                 THEN IF ~HasLoc(df, column, row)
                      THEN [exc |-> "KeyError", value |-> correction_indexes]
                      ELSE SelectLoop(df, pairs, k + 1,
                             [correction_indexes EXCEPT
                                ![row] = Append(@, NumV(Loc(df, column, row)))])
                 ELSE SelectLoop(df, pairs, k + 1, correction_indexes)

GetCorrectionsIndexes(df) ==
    SelectLoop(df, Product(df.index, df.columns), 1,
               [row \in Range(df.index) |-> <<>>])

\* corrections_index.items() flattened by the two nested for loops:
\* the (symbol, orbital) pairs in the order the loops visit them
RECURSIVE Items(_, _, _)
Items(index, ci, i) ==
    IF i > Len(index) THEN <<>>
    ELSE [k \in 1..Len(ci[index[i]]) |-> <<index[i], ci[index[i]][k]>>]
         \o Items(index, ci, i + 1)

(***************************************************************************)
(* _get_sum_correction_percentual                                          *)
(***************************************************************************)
RECURSIVE SumLoop(_, _, _, _)
SumLoop(df, items, k, total_sum) ==
    IF k > Len(items) THEN [exc |-> "none", value |-> total_sum]
    ELSE IF ~HasLoc(df, items[k][2], items[k][1])
         THEN [exc |-> "KeyError", value |-> total_sum]
         ELSE SumLoop(df, items, k + 1,
                      total_sum + Loc(df, items[k][2], items[k][1]))

GetSumCorrectionPercentual(df, index, ci) ==
    SumLoop(df, Items(index, ci, 1), 1, 0)

(***************************************************************************)
(* InputFile.minimum_setup and InputFile.to_file, as far as the            *)
(* orchestrator depends on them.                                           *)
(***************************************************************************)
\* ElectronicDistribution[chemical_symbol]: the elements of the database
ElectronicDistribution == {"Ga", "N"}

\* InputFile.minimum_setup(symbol, ...)
MinimumSetup(f, chemical_symbol) ==
    IF chemical_symbol.tag = "str" /\ chemical_symbol.s \in ElectronicDistribution
    THEN Ok(f) ELSE Raise("ValueError", f)

\* content of the INP file of an atom
InpLines(chemical_symbol) ==
    <<[line |-> "INP", of |-> Format(chemical_symbol), cut |-> 0]>>

(***************************************************************************)
(* _generate_atom_pseudopotential                                          *)
(***************************************************************************)
\* Popen(..., cwd=folder) and communicate(): the process starts only in an
\* existing directory; stderr tells whether it wrote to its error stream, which
\* the caller turns into an exception
Popen(f, command, arg, folder, stderr, message) ==
    IF ~Exists(f, folder) THEN Raise(NoEntry(f, folder), f)
    ELSE IF f[folder].kind = "file" THEN Raise("NotADirectoryError", f)
    ELSE LogCall(Event(command, folder, arg),
                 IF stderr THEN LogCall(Event("failed", folder, arg), Raise(message, f))
                 ELSE Ok(f))

GenerateAtomPseudopotential(f, base_path, symbol, stderr) ==
    Then(RmtreeIfExists(f, Join(base_path, "pseudopotential")), LAMBDA f1 :
    Then(MinimumSetup(f1, symbol), LAMBDA f2 :
    Then(WriteFile(f2, Join(base_path, "pseudopotential"), InpLines(symbol)),
         LAMBDA f3 :
    Popen(f3, "run-atomic", 0, Join(base_path, "pseudopotential"), stderr,
          "Exception: Call to atomic program failed"))))

(***************************************************************************)
(* _generate_occupation_potential                                          *)
(***************************************************************************)
\* OrbitalType[orbital]: the member names of the enumeration
OrbitalType == {"s", "p", "d", "f"}

\* files the occupation command leaves in its working directory
OccupationOutputs(f, folder, orbital, percentual) ==
    Ok((Join(folder, "VTOTAL_OCC") :>
        File(<<[line |-> "VTOTAL_OCC", of |-> Format(orbital), cut |-> percentual]>>))
       @@ f)

GenerateOccupationPotential(f, base_path, orbital, percentual, stderr) ==
    IF ~Exists(f, Join(base_path, "pseudopotential"))
    THEN Raise("FileNotFoundError", f)
    ELSE IF ~(orbital.tag = "str" /\ orbital.s \in OrbitalType)
    THEN Raise("KeyError", f)
    ELSE Then(Popen(f, "occupation", percentual,
                    Join(base_path, "pseudopotential"), stderr,
                    "Exception: Call to occupation command failed"),
              LAMBDA f1 : OccupationOutputs(f1, Join(base_path, "pseudopotential"),
                                            orbital, percentual))

(***************************************************************************)
(* _get_atom_potential                                                     *)
(***************************************************************************)
\* "{}".format(self.potential_filename.upper): the method, not its result
UpperMethodRepr == "<built-in method upper of str object>"

\* open(p) by the potential class of the factory
ReadFile(f, p) == IF OpenRead(f, p) # "none" THEN Raise(OpenRead(f, p), f) ELSE Ok(f)

\* Vtotal.from_file(p): read_radius opens the file and converts its table
\* with np.array(..., dtype=np.float), an attribute that numpy has in some
\* builds only.  The VTOTAL files of the tree are files of the atomic
\* program, whose tables end at their markers.
VtotalFromFile(f, p, np_float) ==
    IF OpenRead(f, p) # "none" THEN Raise(OpenRead(f, p), f)
    ELSE IF ~np_float THEN Raise("AttributeError", f)
    ELSE Ok(f)

AtomicPotential(symbol) == [tag |-> "AtomicPotential", s |-> Format(symbol), n |-> 0]

GetAtomPotential(f, base_path, symbol, env) ==
    Then(VtotalFromFile(f, Join(Join(base_path, "pseudopotential"), "VTOTAL.ae"),
                        env.np_float),
         LAMBDA f1 :
    Then(VtotalFromFile(f1, Join(Join(base_path, "pseudopotential"), "VTOTAL_OCC"),
                        env.np_float),
         LAMBDA f2 :
    Then(ReadFile(f2, Join(conduction_potfiles_folder,
                           UpperMethodRepr \o "." \o Lower(Format(symbol)))),
         LAMBDA f3 :
    Value(f3, AtomicPotential(symbol)))))

(***************************************************************************)
(* _write_potfile                                                          *)
(***************************************************************************)
\* atom_potential.get_corrected_file_lines(
\*     atom_potential.correct_potential(cut, amplitude, is_conduction=True))
CorrectedLines(potential_arg, cut) ==
    <<[line |-> "corrected", of |-> potential_arg.s, cut |-> cut]>>

\* a variant that names the file after the last atom of the run
PotfilePathOfLastAtom(symbol) ==
    Join(conduction_potfiles_folder, PotentialFilename(atoms[Len(atoms)]))

PotfilePath(symbol) ==
    Join(conduction_potfiles_folder, PotentialFilename(Format(symbol)))

WritePotfile(f, cut, symbol, potential_arg) ==
    IF ~Exists(f, PotfilePath(symbol)) THEN Raise("FileNotFoundError", f)
    ELSE Then(Remove(f, PotfilePath(symbol)), LAMBDA f1 :
         \* atom_potential.correct_potential on the None __init__ leaves
         IF potential_arg = None THEN Raise("AttributeError", f1)
         ELSE Log(WriteFile(f1, PotfilePath(symbol),
                            CorrectedLines(potential_arg, cut)),
                  Event("write_potfile", PotfilePath(symbol), cut)))

(***************************************************************************)
(* _join_potfiles                                                          *)
(***************************************************************************)
RECURSIVE JoinLoop(_, _, _, _, _)
\* the for loop of _join_potfiles from atom number i; written is what has
\* been written to the joined file so far
JoinLoop(f, path, as, i, written) ==
    IF i > Len(as) THEN Ok((path :> File(written)) @@ f)
    ELSE IF OpenRead(f, Join(conduction_potfiles_folder, PotentialFilename(as[i])))
            # "none"
         THEN Raise(OpenRead(f, Join(conduction_potfiles_folder,
                                     PotentialFilename(as[i]))),
                    (path :> File(written)) @@ f)
         ELSE JoinLoop(f, path, as, i + 1,
                       written \o f[Join(conduction_potfiles_folder,
                                         PotentialFilename(as[i]))].data)

\* a variant that puts the joined file into the shared folder
JoinedPathInShared(base_path) ==
    Join(conduction_potfiles_folder, Upper(potential_filename))

JoinedPath(base_path) == Join(base_path, Upper(potential_filename))

JoinPotfiles(f, base_path, as) ==
    Then(RmtreeIfExists(f, JoinedPath(base_path)), LAMBDA f1 :
    Then(Mkdir(f1, JoinedPath(base_path)), LAMBDA f2 :
    Then(WriteFile(f2, JoinedPath(base_path), <<>>), LAMBDA f3 :
    Log(JoinLoop(f3, JoinedPath(base_path), as, 1, <<>>),
        Event("join_potfiles", JoinedPath(base_path), 0)))))

(***************************************************************************)
(* find_band_gap.  A cut radius is a multiple of 1/CutDen: the value c     *)
(* stands for the float c / CutDen.                                        *)
(***************************************************************************)
CutDen == 243

\* "{:.2f}".format(c / CutDen): round to the nearest hundredth, ties to even
Hundredths(c) ==
    LET q == (100 * c) \div CutDen
        r == (100 * c) % CutDen
    IN IF 2 * r > CutDen \/ (2 * r = CutDen /\ q % 2 = 1) THEN q + 1 ELSE q

Format2f(c) ==
    ToString(Hundredths(c) \div 100) \o "."
    \o ToString((Hundredths(c) % 100) \div 10) \o ToString(Hundredths(c) % 10)

CutFolder(base_path, cut) ==
    Join(Join(base_path, "find_cut"), "cut_" \o Format2f(cut))

vasp_files == <<"INCAR", "KPOINTS", "POSCAR">>

RECURSIVE CopyVaspFiles(_, _, _)
\* the loop of shutil.copyfile calls, from file number i
CopyVaspFiles(f, cut_folder, i) ==
    IF i > Len(vasp_files) THEN Ok(f)
    ELSE IF OpenRead(f, <<vasp_files[i]>>) # "none"
         THEN Raise(OpenRead(f, <<vasp_files[i]>>), f)
         ELSE Then(WriteFile(f, Join(cut_folder, vasp_files[i]),
                             f[<<vasp_files[i]>>].data),
                   LAMBDA f1 : CopyVaspFiles(f1, cut_folder, i + 1))

\* runner.run(cut_folder): the solver leaves its outputs in the directory
RunnerRun(f, cut_folder, env) ==
    LogCall(Event("runner", cut_folder, 0),
        IF env.runner_raises
        THEN LogCall(Event("failed", cut_folder, 0), Raise("RunnerError", f))
        ELSE Ok((Join(cut_folder, "vasprun.xml") :>
                   File(<<[line |-> "gap", of |-> "", cut |-> env.gap]>>)) @@ f))

\* software_factory.get_*(base_path=cut_folder), BandStructure(...).band_gap()
ExtractGap(f, cut_folder) ==
    IF OpenRead(f, Join(cut_folder, "vasprun.xml")) # "none"
    THEN Raise(OpenRead(f, Join(cut_folder, "vasprun.xml")), f)
    ELSE Log(Value(f, f[Join(cut_folder, "vasprun.xml")].data[1].cut),
             Event("extract", cut_folder, 0))

FindBandGap(f, cut, base_path, symbol, potential_arg, as, env) ==
    Then(RmtreeIfExists(f, CutFolder(base_path, cut)), LAMBDA f1 :
    Then(Log(Mkdir(f1, CutFolder(base_path, cut)),
             Event("find_band_gap", CutFolder(base_path, cut), cut)), LAMBDA f2 :
    Then(CopyVaspFiles(f2, CutFolder(base_path, cut), 1), LAMBDA f3 :
    Then(WritePotfile(f3, cut, symbol, potential_arg), LAMBDA f4 :
    Then(JoinPotfiles(f4, base_path, as), LAMBDA f5 :
    Then(RunnerRun(f5, CutFolder(base_path, cut), env), LAMBDA f6 :
    ExtractGap(f6, CutFolder(base_path, cut))))))))

(***************************************************************************)
(* ternary_search(low, high, function, **kwargs) over cut radii, with the  *)
(* objective find_band_gap.  The objective changes the file system, so the *)
(* search threads it through the evaluations.                              *)
(***************************************************************************)
MaxIterations == 2
\* the width below which the search stops: on the grid of cut radii an
\* interval narrower than three steps has no two interior points
Tolerance == 3

\* a variant that keeps the left end
LeftEnd(low, high) == low

LeftThird(low, high) == low + (high - low) \div 3
RightThird(low, high) == high - (high - low) \div 3
\* a variant that keeps the last pair seen
Latest(best, x, value) == <<x, value>>

\* no pair has been observed yet
NoBest == <<>>

\* the better of the best pair so far, if there is one, and the pair
\* <<x, value>>
Better(best, x, value) ==
    IF best = NoBest \/ value > best[2] THEN <<x, value>> ELSE best

RECURSIVE TernarySearch(_, _, _, _, _, _, _, _, _, _)
TernarySearch(f, low, high, iter, best, base_path, symbol, potential_arg, as, env) ==
    IF iter >= MaxIterations \/ high - low < Tolerance
    THEN Value(f, best)
    ELSE ThenV(FindBandGap(f, LeftThird(low, high), base_path, symbol,
                           potential_arg, as, env), LAMBDA f1, v1 :
         ThenV(FindBandGap(f1, RightThird(low, high), base_path, symbol,
                           potential_arg, as, env), LAMBDA f2, v2 :
         IF v1 < v2
         THEN TernarySearch(f2, LeftThird(low, high), high, iter + 1,
                  Better(Better(best, LeftThird(low, high), v1),
                         RightThird(low, high), v2),
                  base_path, symbol, potential_arg, as, env)
         ELSE TernarySearch(f2, low, RightThird(low, high), iter + 1,
                  Better(Better(best, LeftThird(low, high), v1),
                         RightThird(low, high), v2),
                  base_path, symbol, potential_arg, as, env)))

(***************************************************************************)
(* _find_cut                                                               *)
(***************************************************************************)
FindCut(f, symbol, base_path, potential_arg, as, env) ==
    Then(RmtreeIfExists(f, Join(base_path, "find_cut")), LAMBDA f1 :
    Then(Mkdir(f1, Join(base_path, "find_cut")), LAMBDA f2 :
    TernarySearch(f2, 0, 15 * CutDen, 0, NoBest, base_path, symbol,
                  potential_arg, as, env)))

(***************************************************************************)
(* _find_best_correction                                                   *)
(***************************************************************************)
\* a variant that names the folder by the atom alone
MkpotcarFolderOfAtom(symbol, orbital) ==
    Join(root_folder, "mkpotcar_" \o Format(symbol))

MkpotcarFolder(symbol, orbital) ==
    Join(root_folder, "mkpotcar_" \o Format(symbol) \o "_" \o Format(orbital))

\* round(x / y): nearest integer, ties to even
RoundDiv(x, y) ==
    IF 2 * (x % y) > y \/ (2 * (x % y) = y /\ (x \div y) % 2 = 1)
    THEN (x \div y) + 1 ELSE x \div y

\* round(100 * (self.cbm_projection[orbital][symbol] /
\*              self.sum_correction_percentual))
Percentual(f, df, orbital, symbol, total) ==
    IF ~HasLoc(df, orbital, symbol) THEN Raise("KeyError", f)
    ELSE IF total = 0 THEN Raise("ZeroDivisionError", f)
    ELSE Value(f, RoundDiv(100 * Loc(df, orbital, symbol), total))

\* self.atom_potential = self._get_atom_potential(path, symbol)
Assigned(r) == IF r.exc = "none" THEN [r EXCEPT !.ap = r.value] ELSE r

FindBestCorrection(f, df, total, symbol, orbital, as, env) ==
    Enter("BUILD_PSEUDOPOTENTIAL",
    Then(RmtreeIfExists(f, MkpotcarFolder(symbol, orbital)), LAMBDA f1 :
    Then(GenerateAtomPseudopotential(f1, MkpotcarFolder(symbol, orbital), symbol,
                                     env.stderr_atomic), LAMBDA f2 :
    Enter("APPLY_OCCUPATION",
    ThenV(Percentual(f2, df, orbital, symbol, total), LAMBDA f3, percentual :
    Then(GenerateOccupationPotential(f3, MkpotcarFolder(symbol, orbital), orbital,
                                     percentual, env.stderr_occupation),
         LAMBDA f4 :
    ThenV(Assigned(GetAtomPotential(f4, MkpotcarFolder(symbol, orbital), symbol, env)),
          LAMBDA f5, potential :
    Enter("SEARCH_CUT",
    FindCut(f5, symbol, MkpotcarFolder(symbol, orbital), potential, as, env)))))))))

(***************************************************************************)
(* Inputs of a run.                                                        *)
(***************************************************************************)
CellValues == 4..MaxCell
NumLabel == 6

Frame(index, columns) ==
    {[index |-> index, columns |-> columns, cell |-> c] :
        c \in [Range(columns) \X Range(index) -> CellValues]}

\* tables with atom symbols as index and orbital types as columns
StrIndex == {<<>>, <<StrV("Ga")>>, <<StrV("Ga"), StrV("N")>>}
StrColumns == {<<>>, <<StrV("p")>>, <<StrV("p"), StrV("d")>>}
\* tables whose index and columns carry the same labels
SquareLabels == {<<StrV("Ga")>>, <<NumV(NumLabel)>>, <<StrV("Ga"), NumV(NumLabel)>>}

Tables ==
    UNION {Frame(i, c) : <<i, c>> \in StrIndex \X StrColumns}
    \cup UNION {Frame(l, l) : l \in SquareLabels}

AtomLists == {<<>>, <<"Ga">>, <<"Ga", "N">>}

Data(name) == <<[line |-> name, of |-> "", cut |-> 0]>>

\* the working directory before a run: the source potential files of the
\* atoms in sources, what an earlier run left behind, and the solver inputs
Tree(paths) == [p \in DOMAIN paths \cup {<<>>} |->
                  IF p \in DOMAIN paths THEN paths[p] ELSE Dir]

SourceFiles(sources) ==
    [p \in {potential_folder}
           \cup {Join(potential_folder, PotentialFilename(a)) : a \in sources} |->
        IF p = potential_folder THEN Dir ELSE File(Data("valence " \o p[2]))]

ConductionLeft(left) ==
    CASE left = "dir" ->
           (conduction_potfiles_folder :> Dir)
           @@ (Join(conduction_potfiles_folder, "POTCAR.old") :> File(Data("stale")))
      [] left = "file" -> (conduction_potfiles_folder :> File(Data("stale")))
      [] OTHER -> <<>>

WorkLeft(left, symbol, orbital) ==
    IF left
    THEN (root_folder :> Dir)
         @@ (MkpotcarFolder(symbol, orbital) :> Dir)
         @@ (Join(MkpotcarFolder(symbol, orbital), "pseudopotential") :> Dir)
         @@ (Join(Join(MkpotcarFolder(symbol, orbital), "pseudopotential"), "INP")
               :> File(Data("stale")))
    ELSE (root_folder :> Dir)

InitialFs(sources, conduction, work) ==
    Tree(SourceFiles(sources) @@ ConductionLeft(conduction)
         @@ WorkLeft(work, StrV("Ga"), NumV(NumLabel)))

\* what the external programs do in one call
\* what the external programs do in one call, and whether the numpy of the
\* build has the attribute float
Quiet == [stderr_atomic |-> FALSE, stderr_occupation |-> FALSE,
          runner_raises |-> FALSE, gap |-> 1, np_float |-> TRUE]
Environments ==
    {Quiet, [Quiet EXCEPT !.gap = 2], [Quiet EXCEPT !.stderr_atomic = TRUE],
     [Quiet EXCEPT !.stderr_occupation = TRUE], [Quiet EXCEPT !.runner_raises = TRUE],
     [Quiet EXCEPT !.np_float = FALSE]}
\* those that differ in what the solver run by the Runner does
RunnerEnvironments ==
    {e \in Environments : ~e.stderr_atomic /\ ~e.stderr_occupation /\ e.np_float}
\* those that differ in the numpy of the build
NumpyEnvironments == {e \in Environments : e = [Quiet EXCEPT !.np_float = e.np_float]}

(***************************************************************************)
(* execute()                                                               *)
(***************************************************************************)
Stage(name, t) == [stage |-> name, target |-> t]

Init ==
    /\ atoms \in AtomLists
    /\ cbm_projection \in Tables
    /\ \E sources \in SUBSET {"Ga", "N"}, conduction \in {"none", "dir", "file"},
          work \in BOOLEAN :
          fs = InitialFs(sources, conduction, work)
    /\ pc = "start"
    /\ corrections_index = None
    /\ sum_correction_percentual = 100
    /\ cuts_per_atom_orbital = <<>>
    /\ gap = 0
    /\ target = 0
    /\ atom_potential = None
    /\ raised = "none"
    /\ stages = <<>>
    /\ calls = <<>>
    /\ fs0 = fs
    /\ call = None
    /\ evals = {}
    /\ count = 0
    /\ search = None
    /\ input_file = None
    /\ vtotal = None
    /\ band_structure = None

\* where execute() goes after a call that ends with exception e
Goto(e, next) == IF e = "none" THEN next ELSE "raised"

\* self._make_conduction_potential_folder()
Setup ==
    /\ pc = "start"
    /\ LET r == MakeConductionPotentialFolder(fs, atoms)
       IN /\ fs' = r.fs
          /\ pc' = Goto(r.exc, "select")
          /\ raised' = r.exc
    /\ stages' = Append(stages, Stage("SETUP", 0))
    /\ UNCHANGED <<atoms, cbm_projection, corrections_index,
                   sum_correction_percentual, cuts_per_atom_orbital, gap, target,
                   atom_potential, calls, fs0, call, evals, count>>
    /\ UNCHANGED <<search, input_file, vtotal, band_structure>>

\* self.corrections_index = self._get_corrections_indexes()
SelectTargets ==
    /\ pc = "select"
    /\ LET r == GetCorrectionsIndexes(cbm_projection)
       IN /\ corrections_index' = IF r.exc = "none" THEN r.value ELSE corrections_index
          /\ pc' = Goto(r.exc, "sum")
          /\ raised' = r.exc
    /\ stages' = Append(stages, Stage("SELECT_TARGETS", 0))
    /\ UNCHANGED <<fs, atoms, cbm_projection, sum_correction_percentual,
                   cuts_per_atom_orbital, gap, target, atom_potential, calls, fs0, call, evals, count>>
    /\ UNCHANGED <<search, input_file, vtotal, band_structure>>

\* self.sum_correction_percentual = self._get_sum_correction_percentual()
SumPercentual ==
    /\ pc = "sum"
    /\ LET r == GetSumCorrectionPercentual(cbm_projection, cbm_projection.index,
                                           corrections_index)
       IN /\ sum_correction_percentual' =
                IF r.exc = "none" THEN r.value ELSE sum_correction_percentual
          /\ pc' = Goto(r.exc, "loop")
          /\ raised' = r.exc
    /\ target' = 1
    /\ UNCHANGED <<fs, atoms, cbm_projection, corrections_index,
                   cuts_per_atom_orbital, gap, atom_potential, stages, calls,
                   fs0, call, evals, count>>
    /\ UNCHANGED <<search, input_file, vtotal, band_structure>>

Targets == Items(cbm_projection.index, corrections_index, 1)

\* one pass of the loop body of execute(): _find_best_correction for the
\* target the loop is at, then the assignment to cuts_per_atom_orbital
ProcessTarget ==
    /\ pc = "loop"
    /\ target <= Len(Targets)
    /\ \E env \in Environments :
         LET symbol == Targets[target][1]
             orbital == Targets[target][2]
             r == FindBestCorrection(fs, cbm_projection, sum_correction_percentual,
                                     symbol, orbital, atoms, env)
         IN /\ fs' = r.fs
            /\ atom_potential' = IF r.ap = None THEN atom_potential ELSE r.ap
            /\ calls' = calls \o r.calls
            /\ stages' = stages \o [k \in 1..Len(r.stages) |-> Stage(r.stages[k], target)]
            /\ pc' = Goto(r.exc, "loop")
            /\ raised' = r.exc
            /\ IF r.exc = "none"
               THEN /\ cuts_per_atom_orbital' =
                          (<<symbol, orbital>> :> r.value[1]) @@ cuts_per_atom_orbital
                    /\ gap' = r.value[2]
                    /\ target' = target + 1
               ELSE UNCHANGED <<cuts_per_atom_orbital, gap, target>>
    /\ UNCHANGED <<atoms, cbm_projection, corrections_index,
                   sum_correction_percentual, fs0, call, evals, count>>
    /\ UNCHANGED <<search, input_file, vtotal, band_structure>>

\* return (cuts_per_atom_orbital, gap)
Return ==
    /\ pc = "loop"
    /\ target > Len(Targets)
    /\ pc' = "done"
    /\ stages' = stages \o <<Stage("AGGREGATE", 0), Stage("DONE", 0)>>
    /\ UNCHANGED <<fs, atoms, cbm_projection, corrections_index,
                   sum_correction_percentual, cuts_per_atom_orbital, gap, target,
                   atom_potential, raised, calls, fs0, call, evals, count>>
    /\ UNCHANGED <<search, input_file, vtotal, band_structure>>

Next == Setup \/ SelectTargets \/ SumPercentual \/ ProcessTarget \/ Return

Spec == Init /\ [][Next]_vars

(***************************************************************************)
(* Direct calls of the methods of the orchestrator, as its callers and the *)
(* search engine make them: every call runs to its end, on the file system *)
(* the calls before it left.                                               *)
(***************************************************************************)
MaxCalls == 2         \* direct calls in one behaviour
MaxCutStep == 2       \* cut radii 5 + i / CutDen for i in 0..MaxCutStep

CallTargets == {<<StrV("Ga"), StrV("p")>>, <<StrV("Ga"), StrV("d")>>,
                <<StrV("N"), StrV("p")>>}
Cuts == {5 * CutDen + i : i \in 0..MaxCutStep} \cup {10 * CutDen}

PotfilesLeft(symbols) ==
    [p \in {conduction_potfiles_folder}
           \cup {Join(conduction_potfiles_folder, PotentialFilename(a)) : a \in symbols} |->
        IF p = conduction_potfiles_folder THEN Dir
        ELSE File(Data("valence " \o p[2]))]

InputsLeft(present) ==
    IF present THEN [p \in {<<vasp_files[i]>> : i \in 1..Len(vasp_files)} |->
                        File(Data(p[1]))]
    ELSE <<>>

\* the working tree of a target as an earlier stage left it
Staged(symbol, orbital) ==
    (MkpotcarFolder(symbol, orbital) :> Dir)
    @@ (Join(MkpotcarFolder(symbol, orbital), "pseudopotential") :> Dir)
    @@ (Join(Join(MkpotcarFolder(symbol, orbital), "pseudopotential"), "VTOTAL.ae")
          :> File(Data("VTOTAL.ae")))
    @@ (Join(MkpotcarFolder(symbol, orbital), "find_cut") :> Dir)

TreesLeft(staged) ==
    IF staged
    THEN (root_folder :> Dir)
         @@ Staged(StrV("Ga"), StrV("p")) @@ Staged(StrV("Ga"), StrV("d"))
         @@ Staged(StrV("N"), StrV("p"))
    ELSE (root_folder :> Dir)

InitCalls ==
    /\ atoms = <<"Ga", "N">>
    /\ cbm_projection \in {df \in Frame(<<StrV("Ga")>>, <<StrV("p")>>) :
                               Loc(df, StrV("p"), StrV("Ga")) = minimum_percentual}
    /\ \E potfiles \in {{"Ga", "N"}, {"N"}}, inputs \in BOOLEAN, staged \in BOOLEAN :
          /\ inputs \/ (staged /\ potfiles = {"Ga", "N"})
          /\ fs = Tree(PotfilesLeft(potfiles) @@ InputsLeft(inputs) @@ TreesLeft(staged))
    /\ pc = "calls"
    /\ corrections_index = None
    /\ sum_correction_percentual = 100
    /\ cuts_per_atom_orbital = <<>>
    /\ gap = 0
    /\ target = 0
    /\ atom_potential = None
    /\ raised = "none"
    /\ stages = <<>>
    /\ calls = <<>>
    /\ fs0 = fs
    /\ call = None
    /\ evals = {}
    /\ count = 0
    /\ search = None
    /\ input_file = None
    /\ vtotal = None
    /\ band_structure = None

\* the evaluations a call made and the directory each created, from what it
\* logged
Evaluations(symbol, orbital, log) ==
    {[symbol |-> symbol, orbital |-> orbital, cut |-> log[k].n, dir |-> log[k].path] :
        k \in {j \in 1..Len(log) : log[j].op = "find_band_gap"}}

Called(op, symbol, orbital, n) ==
    [op |-> op, symbol |-> symbol, orbital |-> orbital, n |-> n]

\* the state after the direct call c with outcome r
Finish(c, r) ==
    /\ pc = "calls"
    /\ count < MaxCalls
    /\ count' = count + 1
    /\ call' = c
    /\ fs0' = fs
    /\ fs' = r.fs
    /\ raised' = r.exc
    /\ calls' = r.calls
    /\ stages' = r.stages
    /\ atom_potential' = IF r.ap = None THEN atom_potential ELSE r.ap
    /\ evals' = evals \cup Evaluations(c.symbol, c.orbital, r.calls)
    /\ UNCHANGED <<atoms, cbm_projection, pc, corrections_index,
                   sum_correction_percentual, cuts_per_atom_orbital, gap, target>>
    /\ UNCHANGED <<search, input_file, vtotal, band_structure>>

CallFindBestCorrection ==
    \E t \in CallTargets, env \in Environments :
        Finish(Called("_find_best_correction", t[1], t[2], 0),
               FindBestCorrection(fs, cbm_projection, sum_correction_percentual,
                                  t[1], t[2], atoms, env))

CallGenerateAtomPseudopotential ==
    \E t \in CallTargets, stderr \in BOOLEAN :
        Finish(Called("_generate_atom_pseudopotential", t[1], t[2], 0),
               GenerateAtomPseudopotential(fs, MkpotcarFolder(t[1], t[2]), t[1],
                                           stderr))

CallGenerateOccupationPotential ==
    \E t \in CallTargets, percentual \in {50, 100}, stderr \in BOOLEAN :
        Finish(Called("_generate_occupation_potential", t[1], t[2], percentual),
               GenerateOccupationPotential(fs, MkpotcarFolder(t[1], t[2]), t[2],
                                           percentual, stderr))

CallGetAtomPotential ==
    \E t \in CallTargets, env \in NumpyEnvironments :
        Finish(Called("_get_atom_potential", t[1], t[2], 0),
               GetAtomPotential(fs, MkpotcarFolder(t[1], t[2]), t[1], env))

CallFindCut ==
    \E t \in CallTargets, env \in RunnerEnvironments :
        Finish(Called("_find_cut", t[1], t[2], 0),
               FindCut(fs, t[1], MkpotcarFolder(t[1], t[2]), atom_potential, atoms,
                       env))

CallFindBandGap ==
    \E t \in CallTargets, cut \in Cuts, env \in RunnerEnvironments :
        Finish(Called("find_band_gap", t[1], t[2], cut),
               FindBandGap(fs, cut, MkpotcarFolder(t[1], t[2]), t[1],
                           AtomicPotential(t[1]), atoms, env))

CallWritePotfile ==
    \E t \in CallTargets, cut \in Cuts :
        Finish(Called("_write_potfile", t[1], t[2], cut),
               WritePotfile(fs, cut, t[1], AtomicPotential(t[1])))

CallJoinPotfiles ==
    \E t \in CallTargets :
        Finish(Called("_join_potfiles", t[1], t[2], 0),
               JoinPotfiles(fs, MkpotcarFolder(t[1], t[2]), atoms))

NextCalls ==
    \/ CallFindBestCorrection
    \/ CallGenerateAtomPseudopotential
    \/ CallGenerateOccupationPotential
    \/ CallGetAtomPotential
    \/ CallFindCut
    \/ CallFindBandGap
    \/ CallWritePotfile
    \/ CallJoinPotfiles

SpecCalls == InitCalls /\ [][NextCalls]_vars

(***************************************************************************)
(* Both uses together: a behaviour is a run of execute() or a series of    *)
(* direct calls.                                                           *)
(***************************************************************************)
InitAll == Init \/ InitCalls
NextAll == Next \/ NextCalls
SpecAll == InitAll /\ [][NextAll]_vars

(***************************************************************************)
(* The orchestrator at rest, for the behaviours that exercise one of the   *)
(* components it uses.                                                     *)
(***************************************************************************)
OrchestratorIdle ==
    /\ fs = Tree(<<>>)
    /\ atoms = <<>>
    /\ cbm_projection = None
    /\ pc = "idle"
    /\ corrections_index = None
    /\ sum_correction_percentual = 100
    /\ cuts_per_atom_orbital = <<>>
    /\ gap = 0
    /\ target = 0
    /\ atom_potential = None
    /\ raised = "none"
    /\ stages = <<>>
    /\ calls = <<>>
    /\ fs0 = fs
    /\ call = None
    /\ evals = {}
    /\ count = 0

(***************************************************************************)
(* ternary_search(low, high, function) step by step, with an objective     *)
(* that returns any value, or raises, at each evaluation.                  *)
(***************************************************************************)
MaxObjective == 2     \* the objective returns -1..MaxObjective - 1

\* the gaps the objective returns: negative, zero and positive ones
ObjectiveValues == {v - 1 : v \in 0..MaxObjective}
\* the orchestrator's interval [0, 15] and two narrow intervals
SearchIntervals == {<<0, 15 * CutDen>>, <<0, 9>>, <<0, 3>>}

InitSearch ==
    /\ OrchestratorIdle
    /\ input_file = None
    /\ vtotal = None
    /\ band_structure = None
    /\ \E i \in SearchIntervals :
          search = [pc |-> "run", low |-> i[1], high |-> i[2], iter |-> 0,
                    best |-> NoBest, observed |-> <<>>,
                    intervals |-> <<i>>]

SearchDone(sr) == sr.iter >= MaxIterations \/ sr.high - sr.low < Tolerance

\* one iteration: the objective returns v1 at the left third and v2 at the
\* right third
SearchIterate ==
    /\ search.pc = "run"
    /\ ~SearchDone(search)
    /\ \E v1, v2 \in ObjectiveValues :
         LET left == LeftThird(search.low, search.high)
             right == RightThird(search.low, search.high)
             low == IF v1 < v2 THEN left ELSE search.low
             high == IF v1 < v2 THEN search.high ELSE right
         IN search' = [search EXCEPT
                !.low = low, !.high = high, !.iter = @ + 1,
                !.best = Better(Better(@, left, v1), right, v2),
                !.observed = @ \o <<<<left, v1>>, <<right, v2>>>>,
                !.intervals = Append(@, <<low, high>>)]
    /\ UNCHANGED <<orchestrator, input_file, vtotal, band_structure>>

\* the objective raises at one of the two points: the search propagates it
SearchObjectiveRaises ==
    /\ search.pc = "run"
    /\ ~SearchDone(search)
    /\ \/ search' = [search EXCEPT !.pc = "raised"]
       \/ \E v1 \in ObjectiveValues :
             search' = [search EXCEPT !.pc = "raised",
                !.observed = Append(@, <<LeftThird(search.low, search.high), v1>>)]
    /\ UNCHANGED <<orchestrator, input_file, vtotal, band_structure>>

\* return (best_x, best_value)
SearchReturn ==
    /\ search.pc = "run"
    /\ SearchDone(search)
    /\ search' = [search EXCEPT !.pc = "done"]
    /\ UNCHANGED <<orchestrator, input_file, vtotal, band_structure>>

NextSearch == SearchIterate \/ SearchObjectiveRaises \/ SearchReturn

\* the loop runs on whenever the objective has returned
SpecSearch == InitSearch /\ [][NextSearch]_vars /\ WF_vars(NextSearch)

(***************************************************************************)
(* InputFile.  A string is the sequence of its characters.  An occupation  *)
(* is a whole number of 1e-8 electrons, so that the tolerance of           *)
(* numpy.isclose is a whole number too.                                    *)
(***************************************************************************)
One == 100000000      \* 1.0 electron
Half == 50000000
Quarter == 25000000
Atol == 1             \* atol = 1e-08
Tiny == 1             \* 1e-08, an occupation within the tolerance that is not 0

Abs(x) == IF x < 0 THEN -x ELSE x

\* a variant that tests for exactly 0
IsZero(x) == x = 0

\* numpy.isclose(x, 0.0, rtol=1e-04, atol=1e-08): |x - 0| <= atol + rtol * |0|
IsClose0(x) == Abs(x) <= Atol

\* a variant that takes the last orbital of the layer, exhausted or not
RECURSIVE DecreaseLastMatching(_, _, _, _)
DecreaseLastMatching(orbitals, i, electron_fraction, secondary_quantum_number) ==
    IF i = 0 THEN [exc |-> "Exception: Trouble with occupation", value |-> orbitals]
    ELSE IF orbitals[i].l = secondary_quantum_number
    THEN [exc |-> "none",
          value |-> [orbitals EXCEPT ![i].occupation[1] = @ - electron_fraction]]
    ELSE DecreaseLastMatching(orbitals, i - 1, electron_fraction,
                              secondary_quantum_number)

\* a variant that goes through the orbitals from the first one
RECURSIVE DecreaseFirstEligible(_, _, _, _)
DecreaseFirstEligible(orbitals, i, electron_fraction, secondary_quantum_number) ==
    LET k == Len(orbitals) + 1 - i
    IN IF i = 0
       THEN [exc |-> "Exception: Trouble with occupation", value |-> orbitals]
       ELSE IF ~IsClose0(orbitals[k].occupation[1])
               /\ orbitals[k].l = secondary_quantum_number
       THEN [exc |-> "none",
             value |-> [orbitals EXCEPT ![k].occupation[1] = @ - electron_fraction]]
       ELSE DecreaseFirstEligible(orbitals, i - 1, electron_fraction,
                                  secondary_quantum_number)

\* the loop of electron_occupation over reversed(self.valence_orbitals), at
\* orbital number i; its else branch raises when no orbital made it break
RECURSIVE OccupationLoop(_, _, _, _)
OccupationLoop(orbitals, i, electron_fraction, secondary_quantum_number) ==
    IF i = 0 THEN [exc |-> "Exception: Trouble with occupation", value |-> orbitals]
    ELSE IF ~IsClose0(orbitals[i].occupation[1])
            /\ orbitals[i].l = secondary_quantum_number
    THEN [exc |-> "none",
          value |-> [orbitals EXCEPT ![i].occupation[1] = @ - electron_fraction]]
    ELSE OccupationLoop(orbitals, i - 1, electron_fraction, secondary_quantum_number)

\* InputFile.electron_occupation on the instance obj
ElectronOccupation(obj, electron_fraction, secondary_quantum_number) ==
    LET r == OccupationLoop(obj.valence_orbitals, Len(obj.valence_orbitals),
                            electron_fraction, secondary_quantum_number)
    IN [exc |-> r.exc, value |-> [obj EXCEPT !.valence_orbitals = r.value]]

MaxOrbitals == 3          \* valence orbitals of an instance
MaxOccupationCalls == 2   \* calls of electron_occupation in one behaviour

\* the orbital at place k of the list: its layer and its first occupation vary
Orbitals(k) ==
    {[n |-> k, l |-> l, occupation |-> <<x, One>>] :
        l \in {0, 1}, x \in {0, Tiny, Half, One}}
OrbitalLists ==
    UNION {{o \in [1..k -> UNION {Orbitals(j) : j \in 1..k}] :
               \A j \in 1..k : o[j] \in Orbitals(j)} : k \in 0..MaxOrbitals}

\* InputFile(...) with the given orbitals and the other fields of a Ga file
Instance(orbitals) ==
    [exchange_correlation_type |-> <<"p", "b">>, calculation_code |-> <<"a", "e">>,
     description |-> <<"G", "a">>, chemical_symbol |-> <<"G", "a">>,
     esoteric_line |-> <<"0", ".", "0", "\n">>,
     number_core_orbitals |-> 5, number_valence_orbitals |-> Len(orbitals),
     valence_orbitals |-> orbitals, last_lines |-> <<>>]

Operation(name, a, b) == [name |-> name, a |-> a, b |-> b]

\* the instance, the instance before its last operation, that operation and
\* the exception it raised; initial is the instance as constructed and n the
\* number of operations so far; file is the text of the INP file, written the
\* lines given to writelines and lines the result of the last to_stringlist
Tested(obj, before, op, exc) == [obj |-> obj, before |-> before, op |-> op,
                                 exc |-> exc, initial |-> obj, n |-> 0,
                                 file |-> <<>>, written |-> <<>>, lines |-> <<>>]

InitOccupation ==
    /\ OrchestratorIdle
    /\ search = None
    /\ vtotal = None
    /\ band_structure = None
    /\ \E orbitals \in OrbitalLists :
          input_file = Tested(Instance(orbitals), None, None, "none")

\* input_file.electron_occupation(electron_fraction, secondary_quantum_number)
CallElectronOccupation ==
    /\ input_file.n < MaxOccupationCalls
    /\ \E electron_fraction \in {Quarter, Half}, secondary_quantum_number \in {0, 2} :
         LET r == ElectronOccupation(input_file.obj, electron_fraction,
                                     secondary_quantum_number)
         IN input_file' =
              [Tested(r.value, input_file.obj,
                      Operation("electron_occupation", electron_fraction,
                                secondary_quantum_number), r.exc)
                 EXCEPT !.n = input_file.n + 1, !.initial = input_file.initial]
    /\ UNCHANGED <<orchestrator, search, vtotal, band_structure>>

NextOccupation == CallElectronOccupation

SpecOccupation == InitOccupation /\ [][NextOccupation]_vars

(***************************************************************************)
(* The validated fields of InputFile.                                      *)
(***************************************************************************)
ValueError(message) == "ValueError: " \o message

\* the alternatives of the first group of the regular expression
XcCodes == {<<"c", "a">>, <<"w", "i">>, <<"h", "l">>, <<"g", "l">>, <<"b", "h">>,
            <<"p", "b">>, <<"r", "p">>, <<"r", "v">>, <<"b", "l">>}

\* re.compile(r"(ca|wi|hl|gl|bh|pb|rp|rv|bl)(s|r)?").match(string): the
\* length of the match at the beginning of the string, -1 for no match
XcMatch(string) ==
    IF Len(string) >= 2 /\ SubSeq(string, 1, 2) \in XcCodes
    THEN IF Len(string) >= 3 /\ string[3] \in {"s", "r"} THEN 3 ELSE 2
    ELSE -1

\* re.compile(r"(ae)").match(string)
AeMatch(string) ==
    IF Len(string) >= 2 /\ SubSeq(string, 1, 2) = <<"a", "e">> THEN 2 ELSE -1

\* the setter of exchange_correlation_type
SetExchangeCorrelationType(obj, exchange_correlation_type) ==
    IF XcMatch(exchange_correlation_type) = -1
    THEN [exc |-> ValueError("Your value of exchange and correlation functional is not valid"),
          value |-> obj]
    ELSE [exc |-> "none",
          value |-> [obj EXCEPT !.exchange_correlation_type = exchange_correlation_type]]

\* the setter of calculation_code
SetCalculationCode(obj, calculation_code) ==
    IF AeMatch(calculation_code) = -1
    THEN [exc |-> ValueError("Your value of calculation is not valid"), value |-> obj]
    ELSE [exc |-> "none", value |-> [obj EXCEPT !.calculation_code = calculation_code]]

\* the names of minushalf.utils.PeriodicTable that the model knows
PeriodicTable == {<<"G", "a">>, <<"N">>, <<"W">>, <<"P", "b">>}

UpperCase == [c \in {"g", "a", "n", "x"} |->
                 CASE c = "g" -> "G" [] c = "a" -> "A" [] c = "n" -> "N" [] c = "x" -> "X"]
LowerCase == [c \in {"G", "A", "N", "X"} |->
                 CASE c = "G" -> "g" [] c = "A" -> "a" [] c = "N" -> "n" [] c = "X" -> "x"]

\* str.capitalize()
Capitalize(string) ==
    [k \in DOMAIN string |->
        IF k = 1
        THEN IF string[k] \in DOMAIN UpperCase THEN UpperCase[string[k]] ELSE string[k]
        ELSE IF string[k] \in DOMAIN LowerCase THEN LowerCase[string[k]] ELSE string[k]]

\* the setter of chemical_symbol
SetChemicalSymbol(obj, symbol) ==
    IF symbol \notin PeriodicTable
    THEN [exc |-> ValueError("The chemical symbol passed is not correct"), value |-> obj]
    ELSE [exc |-> "none", value |-> [obj EXCEPT !.chemical_symbol = Capitalize(symbol)]]

\* InputFile.__init__: the assignments in their order, the first exception
\* ending the construction without an instance
NewInputFile(exchange_correlation_type, calculation_code, chemical_symbol, esoteric_line, number_valence_orbitals, number_core_orbitals, valence_orbitals, description, last_lines) ==
    LET blank == [exchange_correlation_type |-> None, calculation_code |-> None,
                  description |-> None, chemical_symbol |-> None,
                  esoteric_line |-> None, number_core_orbitals |-> None,
                  number_valence_orbitals |-> None, valence_orbitals |-> None,
                  last_lines |-> None]
        a == SetExchangeCorrelationType(blank, exchange_correlation_type)
        b == SetCalculationCode(a.value, calculation_code)
        c == SetChemicalSymbol([b.value EXCEPT !.description = description],
                               chemical_symbol)
    IN IF a.exc # "none" THEN [exc |-> a.exc, value |-> None]
       ELSE IF b.exc # "none" THEN [exc |-> b.exc, value |-> None]
       ELSE IF c.exc # "none" THEN [exc |-> c.exc, value |-> None]
       ELSE [exc |-> "none",
             value |-> [c.value EXCEPT
                          !.esoteric_line = esoteric_line,
                          !.number_core_orbitals = number_core_orbitals,
                          !.number_valence_orbitals = number_valence_orbitals,
                          !.valence_orbitals = valence_orbitals,
                          !.last_lines = last_lines]]

MaxLen == 3     \* characters of a string given to the validator

Alphabet == {"c", "a", "s", "x"}
Strings == UNION {[1..k -> Alphabet] : k \in 0..MaxLen}

\* every code with and without an r in front and an s or r behind
Marked == {p \o code \o t : p \in {<<>>, <<"r">>}, code \in XcCodes,
                            t \in {<<>>, <<"s">>, <<"r">>}}

XcInputs == Strings \cup Marked
CalculationInputs == {<<"a", "e">>, <<"a", "e", "x">>, <<"a">>, <<"e", "a">>, <<>>,
                      <<"p", "g">>}
SymbolInputs == {<<"G", "a">>, <<"N">>, <<"g", "a">>, <<"X", "x">>}

\* no instance has been constructed yet
InitFields ==
    /\ OrchestratorIdle
    /\ search = None
    /\ vtotal = None
    /\ band_structure = None
    /\ input_file = Tested(None, None, None, "none")

\* InputFile(...) with any of the strings for its validated fields
Construct ==
    /\ input_file.op = None
    /\ \E xc \in XcInputs, code \in CalculationInputs, symbol \in SymbolInputs :
         LET r == NewInputFile(xc, code, symbol, <<"0", ".", "0", "\n">>, 0, 5,
                               <<>>, <<>>, <<>>)
         IN input_file' = Tested(r.value, None,
                                 Operation("InputFile", xc, code), r.exc)
    /\ UNCHANGED <<orchestrator, search, vtotal, band_structure>>

\* input_file.exchange_correlation_type = xc, in a program that the exceptions
\* of earlier statements would have ended
AssignExchangeCorrelationType ==
    /\ input_file.obj # None
    /\ input_file.exc = "none"
    /\ \E xc \in XcInputs :
         LET r == SetExchangeCorrelationType(input_file.obj, xc)
         IN input_file' = Tested(r.value, input_file.obj,
                                 Operation("exchange_correlation_type", xc, None),
                                 r.exc)
    /\ UNCHANGED <<orchestrator, search, vtotal, band_structure>>

\* input_file.calculation_code = code
AssignCalculationCode ==
    /\ input_file.obj # None
    /\ input_file.exc = "none"
    /\ \E code \in CalculationInputs :
         LET r == SetCalculationCode(input_file.obj, code)
         IN input_file' = Tested(r.value, input_file.obj,
                                 Operation("calculation_code", code, None), r.exc)
    /\ UNCHANGED <<orchestrator, search, vtotal, band_structure>>

\* input_file.chemical_symbol = symbol
AssignChemicalSymbol ==
    /\ input_file.obj # None
    /\ input_file.exc = "none"
    /\ \E symbol \in SymbolInputs :
         LET r == SetChemicalSymbol(input_file.obj, symbol)
         IN input_file' = Tested(r.value, input_file.obj,
                                 Operation("chemical_symbol", symbol, None), r.exc)
    /\ UNCHANGED <<orchestrator, search, vtotal, band_structure>>

NextFields == \/ Construct
              \/ AssignExchangeCorrelationType
              \/ AssignCalculationCode
              \/ AssignChemicalSymbol

SpecFields == InitFields /\ [][NextFields]_vars

(***************************************************************************)
(* The text of an INP file: to_stringlist, to_file, from_file and          *)
(* minimum_setup.                                                          *)
(***************************************************************************)
Digit == <<"0", "1", "2", "3", "4", "5", "6", "7", "8", "9">>
IsDigit(c) == \E d \in DOMAIN Digit : Digit[d] = c
DigitValue(c) == (CHOOSE d \in DOMAIN Digit : Digit[d] = c) - 1

RECURSIVE Decimal(_)
Decimal(n) == IF n < 10 THEN <<Digit[n + 1]>>
              ELSE Decimal(n \div 10) \o <<Digit[(n % 10) + 1]>>

\* "{}".format(n) of an int
FormatInt(n) == IF n < 0 THEN <<"-">> \o Decimal(-n) ELSE Decimal(n)

Cent == One \div 100

\* "{:.2f}".format(x): the nearest hundredth, a tie going to the even one
TwoDecimals(x) ==
    LET q == Abs(x) \div Cent
        r == Abs(x) % Cent
        h == IF 2 * r > Cent \/ (2 * r = Cent /\ q % 2 = 1) THEN q + 1 ELSE q
    IN (IF x < 0 THEN <<"-">> ELSE <<>>) \o Decimal(h \div 100) \o <<".">>
       \o <<Digit[((h % 100) \div 10) + 1], Digit[(h % 10) + 1]>>

RECURSIVE Number(_, _)
\* the number written by the digits of a string, after the number so far
Number(digits, sofar) ==
    IF digits = <<>> THEN sofar
    ELSE Number(Tail(digits), 10 * sofar + DigitValue(Head(digits)))

Unsigned(token) == IF token # <<>> /\ token[1] \in {"-", "+"} THEN Tail(token) ELSE token
Sign(token) == IF token # <<>> /\ token[1] = "-" THEN -1 ELSE 1

\* int(token): a sign and digits, a ValueError otherwise
int(token) ==
    IF Unsigned(token) # <<>> /\ \A k \in DOMAIN Unsigned(token) : IsDigit(Unsigned(token)[k])
    THEN [exc |-> "none", value |-> Sign(token) * Number(Unsigned(token), 0)]
    ELSE [exc |-> "ValueError", value |-> 0]

RECURSIVE Power10(_)
Power10(k) == IF k = 0 THEN 1 ELSE 10 * Power10(k - 1)

\* float(token) of a sign, digits, and a point followed by at most eight
\* digits; a ValueError otherwise
float(token) ==
    LET u == Unsigned(token)
        points == {k \in DOMAIN u : u[k] = "."}
        point == IF points = {} THEN Len(u) + 1 ELSE CHOOSE k \in points : TRUE
        whole == SubSeq(u, 1, point - 1)
        part == SubSeq(u, point + 1, Len(u))
    IN IF /\ Cardinality(points) <= 1
          /\ Len(whole) + Len(part) > 0
          /\ Len(part) <= 8
          /\ \A k \in DOMAIN u : k \in points \/ IsDigit(u[k])
       THEN [exc |-> "none",
             value |-> Sign(token) * (Number(whole, 0) * One
                                      + Number(part, 0) * Power10(8 - Len(part)))]
       ELSE [exc |-> "ValueError", value |-> 0]

Whitespace == {" ", "\n", "\t"}

\* the k-th smallest element of a set of numbers
Nth(S, k) == CHOOSE i \in S : Cardinality({j \in S : j <= i}) = k

\* string.split(): the runs of characters that are no whitespace
Split(string) ==
    LET word(i) == string[i] \notin Whitespace
        starts == {i \in DOMAIN string : word(i) /\ (i = 1 \/ ~word(i - 1))}
        ends == {i \in DOMAIN string : word(i) /\ (i = Len(string) \/ ~word(i + 1))}
    IN [k \in 1..Cardinality(starts) |-> SubSeq(string, Nth(starts, k), Nth(ends, k))]

RECURSIVE SplitAtLoop(_, _, _, _, _)
SplitAtLoop(string, separator, i, token, tokens) ==
    IF i > Len(string) THEN Append(tokens, token)
    ELSE IF string[i] = separator
    THEN SplitAtLoop(string, separator, i + 1, <<>>, Append(tokens, token))
    ELSE SplitAtLoop(string, separator, i + 1, Append(token, string[i]), tokens)

\* string.split(separator)
SplitAt(string, separator) == SplitAtLoop(string, separator, 1, <<>>, <<>>)

RECURSIVE JoinWith(_, _)
\* separator.join(strings)
JoinWith(separator, strings) ==
    IF strings = <<>> THEN <<>>
    ELSE IF Len(strings) = 1 THEN strings[1]
    ELSE strings[1] \o separator \o JoinWith(separator, Tail(strings))

RECURSIVE Concat(_)
\* what file.writelines(lines) writes
Concat(lines) == IF lines = <<>> THEN <<>> ELSE Head(lines) \o Concat(Tail(lines))

\* file.readlines(): the lines with their line ends, and what follows the
\* last line end if anything does
ReadLines(text) ==
    LET ends == {i \in DOMAIN text : text[i] = "\n"} \cup
                (IF text # <<>> /\ text[Len(text)] # "\n" THEN {Len(text)} ELSE {})
    IN [k \in 1..Cardinality(ends) |->
           SubSeq(text, (IF k = 1 THEN 0 ELSE Nth(ends, k - 1)) + 1, Nth(ends, k))]

\* sequence[start:]
Slice(sequence, start) ==
    LET from == IF start >= 0 THEN start
                ELSE IF Len(sequence) + start < 0 THEN 0 ELSE Len(sequence) + start
    IN SubSeq(sequence, from + 1, Len(sequence))

RECURSIVE Spaces(_)
Spaces(k) == IF k = 0 THEN <<>> ELSE <<" ">> \o Spaces(k - 1)

RECURSIVE Repeat(_, _)
Repeat(string, k) == IF k = 0 THEN <<>> ELSE string \o Repeat(string, k - 1)

RECURSIVE drop_comments(_)
\* minushalf.utils.drop_comments: the lines that are not comments
drop_comments(lines) ==
    IF lines = <<>> THEN <<>>
    ELSE IF Split(Head(lines)) # <<>> /\ Split(Head(lines))[1][1] = "#"
    THEN drop_comments(Tail(lines))
    ELSE <<Head(lines)>> \o drop_comments(Tail(lines))

\* minushalf.utils.parse_valence_orbitals: n, l and the occupations of an
\* orbital line
parse_valence_orbitals(line) ==
    LET tokens == Split(line)
        occupation == [k \in 1..(Len(tokens) - 2) |-> float(tokens[k + 2])]
    IN IF Len(tokens) < 3 THEN [exc |-> "IndexError", value |-> None]
       ELSE IF \/ int(tokens[1]).exc # "none"
               \/ int(tokens[2]).exc # "none"
               \/ \E k \in DOMAIN occupation : occupation[k].exc # "none"
       THEN [exc |-> "ValueError", value |-> None]
       ELSE [exc |-> "none",
             value |-> [n |-> int(tokens[1]).value, l |-> int(tokens[2]).value,
                        occupation |-> [k \in DOMAIN occupation |->
                                           occupation[k].value]]]

\* the line of an orbital in to_stringlist
OrbitalLine(orbital) ==
    Spaces(4) \o FormatInt(orbital.n) \o Spaces(4) \o FormatInt(orbital.l)
    \o Spaces(6)
    \o JoinWith(Spaces(6), [k \in DOMAIN orbital.occupation |->
                               TwoDecimals(orbital.occupation[k])])
    \o <<"\n">>

\* InputFile.to_stringlist
to_stringlist(obj) ==
    <<Spaces(3) \o obj.calculation_code \o Spaces(6) \o obj.description \o <<"\n">>,
      <<" ", "n", "=">> \o obj.chemical_symbol,
      (IF Len(obj.chemical_symbol) = 2 THEN Spaces(1) ELSE Spaces(2))
          \o <<"c", "=">> \o obj.exchange_correlation_type \o <<"\n">>,
      obj.esoteric_line,
      (IF obj.number_core_orbitals <= 9 THEN Spaces(4) ELSE Spaces(3))
          \o FormatInt(obj.number_core_orbitals) \o Spaces(4)
          \o FormatInt(obj.number_valence_orbitals) \o <<"\n">>>>
    \o [k \in DOMAIN obj.valence_orbitals |-> OrbitalLine(obj.valence_orbitals[k])]
    \o obj.last_lines

\* the text that to_file writes
to_file(obj) == Concat(to_stringlist(obj))

\* the messages of the four guarded groups of from_file
NoHeader == ValueError("Description or calculation code not provided")
NoSymbol == ValueError("Chemical symbol or exchange correlation not provided")
NoCounts == ValueError("Number of core orbitals or number of valence orbitals not provided")
NoOrbitals == ValueError("Valence orbitals do not provided correctly")

\* InputFile.from_file on a file with the given text
from_file(text) ==
    LET lines == drop_comments(ReadLines(text))
        header == Split(lines[1])
        second == Split(lines[2])
        counts == Split(lines[4])
        valence == int(counts[2]).value
        orbitals == [k \in 1..valence |->
                        IF 4 + k > Len(lines) THEN [exc |-> "IndexError", value |-> None]
                        ELSE parse_valence_orbitals(lines[4 + k])]
    IN IF Len(lines) < 1 \/ Len(header) < 1 THEN [exc |-> NoHeader, value |-> None]
       ELSE IF \/ Len(lines) < 2
               \/ Len(second) < 2
               \/ Len(SplitAt(second[1], "=")) < 2
               \/ Len(SplitAt(second[2], "=")) < 2
       THEN [exc |-> NoSymbol, value |-> None]
       ELSE IF Len(lines) < 3 THEN [exc |-> "IndexError", value |-> None]
       ELSE IF \/ Len(lines) < 4
               \/ Len(counts) < 2
               \/ int(counts[1]).exc # "none"
               \/ int(counts[2]).exc # "none"
       THEN [exc |-> NoCounts, value |-> None]
       ELSE IF \E k \in DOMAIN orbitals : orbitals[k].exc # "none"
       THEN [exc |-> NoOrbitals, value |-> None]
       ELSE NewInputFile(SplitAt(second[2], "=")[2], header[1],
                         SplitAt(second[1], "=")[2], lines[3], valence,
                         int(counts[1]).value,
                         [k \in DOMAIN orbitals |-> orbitals[k].value],
                         JoinWith(<<" ">>, Tail(header)),
                         Slice(lines, 4 + valence))

\* a line of an entry of ElectronicDistribution
DistributionLine(n, l, occupation) ==
    FormatInt(n) \o <<" ">> \o FormatInt(l) \o <<" ">> \o TwoDecimals(occupation)

\* the values of minushalf.utils.ElectronicDistribution that the model knows:
\* the numbers of core and valence orbitals, then the valence orbitals
Distributions ==
    [symbol \in PeriodicTable |->
        CASE symbol = <<"N">> ->
               <<FormatInt(1) \o <<" ">> \o FormatInt(2),
                 DistributionLine(2, 0, 2 * One), DistributionLine(2, 1, 3 * One)>>
          [] symbol = <<"G", "a">> ->
               <<FormatInt(5) \o <<" ">> \o FormatInt(3),
                 DistributionLine(4, 0, 2 * One), DistributionLine(4, 1, One),
                 DistributionLine(3, 2, 10 * One)>>
          [] symbol = <<"W">> ->
               <<FormatInt(11) \o <<" ">> \o FormatInt(2),
                 DistributionLine(6, 0, 2 * One), DistributionLine(5, 2, 4 * One)>>
          [] symbol = <<"P", "b">> ->
               <<FormatInt(12) \o <<" ">> \o FormatInt(2),
                 DistributionLine(6, 0, 2 * One), DistributionLine(6, 1, 2 * One)>>]

maximum_iterations == 100

EsotericLine == Repeat(Spaces(7) \o <<"0", ".", "0">>, 6) \o <<"\n">>

\* InputFile.minimum_setup
minimum_setup(chemical_symbol, exchange_correlation_type, iterations, calculation_code) ==
    IF chemical_symbol \notin DOMAIN Distributions
    THEN [exc |-> ValueError("This element its not available in our database"),
          value |-> None]
    ELSE LET electronic_distribution == Distributions[chemical_symbol]
             orbitals == [k \in 1..(Len(electronic_distribution) - 1) |->
                             parse_valence_orbitals(electronic_distribution[k + 1]).value]
         IN NewInputFile(exchange_correlation_type, calculation_code, chemical_symbol,
                         EsotericLine,
                         int(Split(electronic_distribution[1])[2]).value,
                         int(Split(electronic_distribution[1])[1]).value,
                         orbitals, chemical_symbol,
                         <<FormatInt(iterations) \o <<" ", "m", "a", "x", "i", "t", "\n">>>>)

BuildSymbols == PeriodicTable \cup {<<"X", "x">>}
BuildXc == {<<"p", "b">>, <<"c", "a">>, <<"c", "a", "r">>, <<"r", "c", "a", "s">>,
            <<"c", "a", "x">>, <<"c", "a", " ", "x">>}
BuildCodes == {<<"a", "e">>, <<"a", "e", " ", "x">>, <<"p", "g">>}

\* the INP file of gallium as minimum_setup and to_file write it
GoodLines ==
    ReadLines(to_file(minimum_setup(<<"G", "a">>, <<"p", "b">>, maximum_iterations,
                                    <<"a", "e">>).value))

Take(lines, k) == SubSeq(lines, 1, k)
Replace(lines, j, line) == [lines EXCEPT ![j] = line]
WithoutLine(lines, j) == SubSeq(lines, 1, j - 1) \o SubSeq(lines, j + 1, Len(lines))
Damaged(group, lines) == [group |-> group, file |-> Concat(lines)]

\* INP files with one field group missing or malformed: the file ends before
\* the group, or the line of the group lacks tokens or has tokens that are
\* no numbers
DamagedFiles ==
    {Damaged("header", <<>>),
     Damaged("header", Replace(GoodLines, 1, <<"\n">>)),
     Damaged("symbol", Take(GoodLines, 1)),
     Damaged("symbol", Replace(GoodLines, 2, <<"\n">>)),
     Damaged("symbol", Replace(GoodLines, 2, <<" ", "n", "=", "G", "a", "\n">>)),
     Damaged("symbol", Replace(GoodLines, 2, <<" ", "G", "a", " ", "p", "b", "\n">>)),
     Damaged("esoteric", Take(GoodLines, 2)),
     Damaged("counts", Take(GoodLines, 3)),
     Damaged("counts", Replace(GoodLines, 4, <<"\n">>)),
     Damaged("counts", Replace(GoodLines, 4, Spaces(4) \o <<"5", "\n">>)),
     Damaged("counts", Replace(GoodLines, 4, Spaces(4) \o <<"5">> \o Spaces(4) \o <<"x", "\n">>)),
     Damaged("counts", Replace(GoodLines, 4, Spaces(4) \o <<"x">> \o Spaces(4) \o <<"3", "\n">>)),
     Damaged("orbitals", Take(GoodLines, 4)),
     Damaged("orbitals", Take(GoodLines, 6)),
     Damaged("orbitals", WithoutLine(GoodLines, 5)),
     Damaged("orbitals", Replace(GoodLines, 6,
                 Spaces(4) \o <<"4">> \o Spaces(4) \o <<"x">> \o Spaces(6)
                 \o <<"1", ".", "0", "0", "\n">>))}

InitParse ==
    /\ OrchestratorIdle
    /\ search = None
    /\ vtotal = None
    /\ band_structure = None
    /\ input_file = Tested(None, None, None, "none")

\* InputFile.minimum_setup(symbol, xc, iterations, code)
Build ==
    /\ input_file.op = None
    /\ \E symbol \in BuildSymbols, xc \in BuildXc, code \in BuildCodes,
          iterations \in {maximum_iterations, 5} :
         LET r == minimum_setup(symbol, xc, iterations, code)
         IN input_file' = Tested(r.value, None,
                                 Operation("minimum_setup", xc, code), r.exc)
    /\ UNCHANGED <<orchestrator, search, vtotal, band_structure>>

\* input_file.to_file()
ToFile ==
    /\ input_file.op # None
    /\ input_file.op.name = "minimum_setup"
    /\ input_file.exc = "none"
    /\ input_file' = [input_file EXCEPT
                        !.op = Operation("to_file", None, None),
                        !.before = input_file.obj,
                        !.written = to_stringlist(input_file.obj),
                        !.file = to_file(input_file.obj)]
    /\ UNCHANGED <<orchestrator, search, vtotal, band_structure>>

\* a damaged INP file is put in the place of the file
WriteDamaged ==
    /\ input_file.op = None
    /\ \E damaged \in DamagedFiles :
         input_file' = [input_file EXCEPT
                          !.op = Operation("write", damaged.group, None),
                          !.file = damaged.file]
    /\ UNCHANGED <<orchestrator, search, vtotal, band_structure>>

\* InputFile.from_file()
FromFile ==
    /\ input_file.op # None
    /\ input_file.op.name \in {"to_file", "write"}
    /\ LET r == from_file(input_file.file)
       IN input_file' = [input_file EXCEPT
                           !.op = Operation("from_file", input_file.op.name,
                                            input_file.op.a),
                           !.before = input_file.obj,
                           !.obj = r.value,
                           !.exc = r.exc]
    /\ UNCHANGED <<orchestrator, search, vtotal, band_structure>>

\* input_file.to_stringlist() of the instance that from_file returned
ToStringlist ==
    /\ input_file.op # None
    /\ input_file.op.name = "from_file"
    /\ input_file.exc = "none"
    /\ input_file' = [input_file EXCEPT
                        !.op = Operation("to_stringlist", input_file.op.a, None),
                        !.before = input_file.obj,
                        !.lines = to_stringlist(input_file.obj)]
    /\ UNCHANGED <<orchestrator, search, vtotal, band_structure>>

NextParse == Build \/ ToFile \/ WriteDamaged \/ FromFile \/ ToStringlist

SpecParse == InitParse /\ [][NextParse]_vars

(***************************************************************************)
(* Vtotal: the VTOTAL file of the atomic program and its parser.           *)
(***************************************************************************)
\* the kinds of lines of a VTOTAL file and their text
RadialGridFollows ==
    <<" ", "R", "a", "d", "i", "a", "l", " ", "g", "r", "i", "d", " ", "f",
      "o", "l", "l", "o", "w", "s", "\n">>
Numbers ==
    <<" ", " ", "0", ".", "5", "0", " ", " ", "1", ".", "2", "5", "\n">>
More ==
    <<" ", " ", "2", ".", "0", "0", "\n">>
SpinValue ==
    <<" ", "0", "\n">>
DownPotentialFollows ==
    <<" ", "D", "o", "w", "n", " ", "p", "o", "t", "e", "n", "t", "i", "a",
      "l", " ", "f", "o", "l", "l", "o", "w", "s", "\n">>
UpPotentialFollows ==
    <<" ", "U", "p", " ", "p", "o", "t", "e", "n", "t", "i", "a", "l", " ",
      "f", "o", "l", "l", "o", "w", "s", "\n">>

LineText == [kind \in {"title", "numbers", "more", "spin", "down", "up"} |->
                CASE kind = "title" -> RadialGridFollows
                  [] kind = "numbers" -> Numbers
                  [] kind = "more" -> More
                  [] kind = "spin" -> SpinValue
                  [] kind = "down" -> DownPotentialFollows
                  [] kind = "up" -> UpPotentialFollows]

EndsWith(string, end) ==
    Len(string) >= Len(end)
    /\ SubSeq(string, Len(string) - Len(end) + 1, Len(string)) = end
StartsWith(string, start) ==
    Len(string) >= Len(start) /\ SubSeq(string, 1, Len(start)) = start

\* re.compile(r"^.*<word>\s+potential\s+follows").match(line)
PotentialFollows(word, line) ==
    LET tokens == Split(line)
    IN \E k \in 1..(Len(tokens) - 2) :
          /\ EndsWith(tokens[k], word)
          /\ tokens[k + 1] = <<"p", "o", "t", "e", "n", "t", "i", "a", "l">>
          /\ StartsWith(tokens[k + 2], <<"f", "o", "l", "l", "o", "w", "s">>)

Down == <<"D", "o", "w", "n">>
Up == <<"U", "p">>

\* the value None of a function that ends without a return, and an array
NoArray == [tag |-> "None", value |-> <<>>]
Array(values) == [tag |-> "array", value |-> values]

RECURSIVE Chain(_)
\* list(chain.from_iterable(lists))
Chain(lists) == IF lists = <<>> THEN <<>> ELSE Head(lists) \o Chain(Tail(lists))

\* np.array(chain of the split lines first..last, dtype=np.float); np_float
\* tells whether the numpy of the build still has the attribute float
NpArray(lines, first, last, np_float) ==
    LET tokens == Chain([k \in 1..(last - first + 1) |-> Split(lines[first + k - 1])])
    IN IF ~np_float THEN [exc |-> "AttributeError", value |-> NoArray]
       ELSE IF \E k \in DOMAIN tokens : float(tokens[k]).exc # "none"
       THEN [exc |-> ValueError("could not convert string to float"),
             value |-> NoArray]
       ELSE [exc |-> "none",
             value |-> Array([k \in DOMAIN tokens |-> float(tokens[k]).value])]

\* the first line from line number first on where the marker is, 0 if none
Find(word, lines, first) ==
    LET found == {k \in first..Len(lines) : PotentialFollows(word, lines[k])}
    IN IF found = {} THEN 0 ELSE CHOOSE k \in found : \A j \in found : k <= j

\* Vtotal.read_radius: the lines after the first one, up to the marker
read_radius(lines, np_float) ==
    LET stop == Find(Down, lines, 2)
    IN IF stop = 0 THEN [exc |-> "none", value |-> NoArray]
       ELSE NpArray(lines, 2, stop - 1, np_float)

NoPotential == ValueError("Potential informations do not found in vtotal")

\* Vtotal.read_down_potential: the lines after the marker and the line of the
\* spin, up to the marker of the next potential
read_down_potential(lines, np_float) ==
    LET down == Find(Down, lines, 1)
        stop == Find(Up, lines, down + 2)
    IN IF down = 0 THEN [exc |-> NoPotential, value |-> NoArray]
       ELSE IF stop = 0 THEN [exc |-> "none", value |-> NoArray]
       ELSE NpArray(lines, down + 2, stop - 1, np_float)

\* Vtotal.from_file
vtotal_from_file(lines, np_float) ==
    LET radius == read_radius(lines, np_float)
        down_potential == read_down_potential(lines, np_float)
    IN IF radius.exc # "none" THEN [exc |-> radius.exc, value |-> None]
       ELSE IF down_potential.exc # "none"
       THEN [exc |-> down_potential.exc, value |-> None]
       ELSE [exc |-> "none",
             value |-> [vtotal_header_size |-> 1, radius |-> radius.value,
                        down_potential |-> down_potential.value]]

MaxLines == 6      \* lines of a VTOTAL file

Files == UNION {[1..k -> {"title", "numbers", "down", "up"}] : k \in 0..MaxLines}

MaxTable == 2      \* lines of a table of a VTOTAL file

NumberTables == UNION {[1..k -> {"numbers", "more"}] : k \in 0..MaxTable}

\* the files of the atomic program: the title, the radii, the marker and the
\* spin of the down potential, its table, the marker of the up potential and
\* what follows it
WellFormedFiles ==
    {<<"title">> \o radius \o <<"down", "spin">> \o potential \o <<"up">> \o rest :
        radius \in NumberTables, potential \in NumberTables,
        rest \in {<<>>, <<"spin", "numbers">>}}

\* a VTOTAL file is on the disk
InitVtotal ==
    /\ OrchestratorIdle
    /\ search = None
    /\ input_file = None
    /\ band_structure = None
    /\ \E file \in Files \cup WellFormedFiles :
          vtotal = [file |-> file, obj |-> None, exc |-> "none", parsed |-> FALSE,
                    np_float |-> FALSE]

\* Vtotal.from_file() with either numpy
ParseVtotal ==
    /\ ~vtotal.parsed
    /\ \E np_float \in BOOLEAN :
         LET r == vtotal_from_file([k \in DOMAIN vtotal.file |->
                                       LineText[vtotal.file[k]]], np_float)
         IN vtotal' = [vtotal EXCEPT !.obj = r.value, !.exc = r.exc,
                                     !.parsed = TRUE,
                                     !.np_float = np_float]
    /\ UNCHANGED <<orchestrator, search, input_file, band_structure>>

NextVtotal == ParseVtotal

SpecVtotal == InitVtotal /\ [][NextVtotal]_vars

(***************************************************************************)
(* BandStructure.band_gap() as the band_gap command uses it.  (The other   *)
(* user, find_band_gap, is ExtractGap above, at the end of FindBandGap.)   *)
(* Energies are whole numbers of 1e-4 eV.                                  *)
(***************************************************************************)
MaxKpoints == 2
Kpoints == 1..MaxKpoints
Bands == {1, 2}
Energies == {-15000, 0, 2506, 32004}
FermiEnergies == {0, 10000}

\* get_eigenvalues(): the eigenvalues keyed by (kpoint index, band index)
EigenvalueTables == [Kpoints \X Bands -> Energies]

\* the keys in the order of iteration: the kpoints, and the bands of each
Before(a, b) == a[1] < b[1] \/ (a[1] = b[1] /\ a[2] < b[2])

\* the first key, in the order of iteration, of the keys of a set
FirstKey(keys) == CHOOSE a \in keys : \A b \in keys \ {a} : Before(a, b)

AtOrBelow(eigenvalues, fermi_energy) ==
    {a \in DOMAIN eigenvalues : eigenvalues[a] <= fermi_energy}
Above(eigenvalues, fermi_energy) ==
    {a \in DOMAIN eigenvalues : eigenvalues[a] > fermi_energy}

\* the highest eigenvalue at or below the Fermi energy, at its first key
vbm_index(eigenvalues, fermi_energy) ==
    LET side == AtOrBelow(eigenvalues, fermi_energy)
    IN FirstKey({a \in side : \A b \in side : eigenvalues[b] <= eigenvalues[a]})

\* a variant whose conduction band starts at the Fermi energy
CbmIndexFromFermi(eigenvalues, fermi_energy) ==
    LET side == {a \in DOMAIN eigenvalues : eigenvalues[a] >= fermi_energy}
    IN FirstKey({a \in side : \A b \in side : eigenvalues[b] >= eigenvalues[a]})

\* the lowest eigenvalue above the Fermi energy, at its first key
cbm_index(eigenvalues, fermi_energy) ==
    LET side == Above(eigenvalues, fermi_energy)
    IN FirstKey({a \in side : \A b \in side : eigenvalues[b] >= eigenvalues[a]})

Extremum(eigenvalues, key) ==
    [kpoint |-> key[1], band |-> key[2], eigenvalue |-> eigenvalues[key]]

\* BandStructure.band_gap(): the report of the two extrema and their distance
band_gap(eigenvalues, fermi_energy) ==
    LET vbm == Extremum(eigenvalues, vbm_index(eigenvalues, fermi_energy))
        cbm == Extremum(eigenvalues, cbm_index(eigenvalues, fermi_energy))
    IN [vbm |-> vbm, cbm |-> cbm, gap |-> cbm.eigenvalue - vbm.eigenvalue]

\* "{:.3f}".format(x): the nearest thousandth, a tie going to the even one
ThreeDecimals(x) ==
    LET q == Abs(x) \div 10
        r == Abs(x) % 10
        h == IF 2 * r > 10 \/ (2 * r = 10 /\ q % 2 = 1) THEN q + 1 ELSE q
    IN (IF x < 0 THEN <<"-">> ELSE <<>>) \o Decimal(h \div 1000) \o <<".">>
       \o <<Digit[((h % 1000) \div 100) + 1], Digit[((h % 100) \div 10) + 1],
            Digit[(h % 10) + 1]>>

\* "Gap: {:.3f}eV".format(gap_report["gap"])
GapLine(value) ==
    <<"G", "a", "p", ":", " ">> \o ThreeDecimals(value) \o <<"e", "V">>

\* gap_report["gap"]
ReportedGap(gap_report) == gap_report.gap

NoReport == [vbm |-> None, cbm |-> None, gap |-> 0]

InitBand ==
    /\ OrchestratorIdle
    /\ search = None
    /\ input_file = None
    /\ vtotal = None
    /\ \E eigenvalues \in EigenvalueTables, fermi_energy \in FermiEnergies :
          band_structure = [eigenvalues |-> eigenvalues,
                            fermi_energy |-> fermi_energy,
                            caller |-> "none", gap_report |-> NoReport,
                            echoed |-> <<>>]

\* the tables band_gap() is described for: an eigenvalue on each side
TwoSided ==
    /\ AtOrBelow(band_structure.eigenvalues, band_structure.fermi_energy) # {}
    /\ Above(band_structure.eigenvalues, band_structure.fermi_energy) # {}

\* the band_gap command: the report is made and its three entries are echoed
BandGapCommand ==
    /\ band_structure.caller = "none"
    /\ TwoSided
    /\ LET gap_report == band_gap(band_structure.eigenvalues,
                                  band_structure.fermi_energy)
       IN band_structure' =
            [band_structure EXCEPT
                !.caller = "band_gap",
                !.gap_report = gap_report,
                !.echoed = <<gap_report.vbm, gap_report.cbm,
                             GapLine(ReportedGap(gap_report))>>]
    /\ UNCHANGED <<orchestrator, search, input_file, vtotal>>

NextBand == BandGapCommand

SpecBand == InitBand /\ [][NextBand]_vars

(***************************************************************************)
(* Properties of a run of execute().                                       *)
(***************************************************************************)
\* the stage that may follow stage a of a run
StageOrder(a, b) ==
    CASE a.stage = "SETUP" -> b = Stage("SELECT_TARGETS", 0)
      [] a.stage = "SELECT_TARGETS" ->
           b \in {Stage("BUILD_PSEUDOPOTENTIAL", 1), Stage("AGGREGATE", 0)}
      [] a.stage = "BUILD_PSEUDOPOTENTIAL" -> b = Stage("APPLY_OCCUPATION", a.target)
      [] a.stage = "APPLY_OCCUPATION" -> b = Stage("SEARCH_CUT", a.target)
      [] a.stage = "SEARCH_CUT" ->
           b \in {Stage("BUILD_PSEUDOPOTENTIAL", a.target + 1), Stage("AGGREGATE", 0)}
      [] a.stage = "AGGREGATE" -> b = Stage("DONE", 0)
      [] OTHER -> FALSE

\* the (atom symbol, orbital type) pairs contributing at or above the threshold
ContributingPairs(df) ==
    {t \in Range(df.index) \X Range(df.columns) :
        Loc(df, t[2], t[1]) >= minimum_percentual}

RunEnded == pc \in {"raised", "done"}
NoExternalFailure == \A k \in 1..Len(calls) : calls[k].op # "failed"

\* C1: a run goes through its stages in the fixed order SETUP,
\* SELECT_TARGETS, then BUILD_PSEUDOPOTENTIAL, APPLY_OCCUPATION, SEARCH_CUT
\* for one target after the other, then AGGREGATE and DONE: a stage of a
\* target follows the previous stage of the same target, the first target
\* follows SELECT_TARGETS, a target starts only after the one before it is
\* through, AGGREGATE follows the last target, and a run whose SETUP
\* succeeded and in which no external program failed has gone through all of
\* them when it ends.
C1_StagesInFixedOrder ==
    /\ stages # <<>> => stages[1] = Stage("SETUP", 0)
    /\ \A k \in 1..(Len(stages) - 1) : StageOrder(stages[k], stages[k + 1])
    /\ \A k \in 2..Len(stages) :
          stages[k].stage = "AGGREGATE" =>
             \/ stages[k - 1].stage = "SELECT_TARGETS" /\ Len(Targets) = 0
             \/ stages[k - 1] = Stage("SEARCH_CUT", Len(Targets))
    /\ (RunEnded /\ Len(stages) >= 2 /\ NoExternalFailure) =>
          /\ stages[Len(stages)] = Stage("DONE", 0)
          /\ \A t \in 1..Cardinality(ContributingPairs(cbm_projection)) :
                \E k \in 1..(Len(stages) - 2) :
                   /\ stages[k] = Stage("BUILD_PSEUDOPOTENTIAL", t)
                   /\ stages[k + 1] = Stage("APPLY_OCCUPATION", t)
                   /\ stages[k + 2] = Stage("SEARCH_CUT", t)

\* the environments in which one of the external programs fails
FailingEnvironments ==
    {env \in Environments :
        env.stderr_atomic \/ env.stderr_occupation \/ env.runner_raises}

RECURSIVE Contributors(_, _, _)
Contributors(df, row, k) ==
    IF k > Len(df.columns) THEN <<>>
    ELSE (IF Loc(df, df.columns[k], row) >= minimum_percentual
          THEN <<df.columns[k]>> ELSE <<>>) \o Contributors(df, row, k + 1)

\* the mapping from atom symbol to selected orbital types, without the atoms
\* that have no selected orbital
Contributing(df) ==
    [row \in {r \in Range(df.index) : Contributors(df, r, 1) # <<>>} |->
        Contributors(df, row, 1)]

SelectEnded == Len(stages) = 2 /\ target = 0

\* C3: for every projection table SELECT_TARGETS returns the mapping from
\* atom symbol to the list of orbital types contributing at or above 5%,
\* without the atoms that have no such orbital.
C3_SelectReturnsContributors ==
    SelectEnded => (pc = "sum" /\ corrections_index = Contributing(cbm_projection))

(***************************************************************************)
(* Properties of the occupation percentage and of the result.              *)
(***************************************************************************)
RECURSIVE SumOver(_, _)
\* the sum of the contributions of the pairs in S
SumOver(df, S) ==
    IF S = {} THEN 0
    ELSE LET t == CHOOSE x \in S : TRUE
         IN Loc(df, t[2], t[1]) + SumOver(df, S \ {t})

\* C4: in a run whose SETUP succeeded and in which no external program
\* failed, the occupation command of every pair contributing at or above 5%
\* is invoked with the percentage 100 * contribution / sum of the
\* contributions of all such pairs (100 for a single pair).
C4_PercentageIsNormalised ==
    (RunEnded /\ Len(stages) >= 2 /\ NoExternalFailure) =>
       \A t \in ContributingPairs(cbm_projection) :
          \E k \in 1..Len(calls) :
             /\ calls[k].op = "occupation"
             /\ calls[k].path = Join(MkpotcarFolder(t[1], t[2]), "pseudopotential")
             /\ calls[k].n * SumOver(cbm_projection, ContributingPairs(cbm_projection))
                  = 100 * Loc(cbm_projection, t[2], t[1])

\* the cut radii evaluated in the working tree of target t
CutsEvaluated(t) ==
    {calls[k].n : k \in {j \in 1..Len(calls) :
        /\ calls[j].op = "find_band_gap"
        /\ IsPrefix(MkpotcarFolder(t[1], t[2]), calls[j].path)}}

SourcePath(atom) == Join(potential_folder, PotentialFilename(atom))
StagedPath(atom) == Join(conduction_potfiles_folder, PotentialFilename(atom))
Under(f, folder) == {p \in DOMAIN f : IsPrefix(folder, p) /\ p # folder}

\* C8: when SETUP has returned, the conduction potfiles folder is a directory
\* that holds a copy of the source potential file of every atom and nothing
\* else, whatever was there before; when the source potential file of an
\* atom is missing, SETUP raises and the run ends without entering
\* SELECT_TARGETS.
C8_SetupStagesFreshFolder ==
    /\ pc = "select" =>
          /\ IsDirectory(fs, conduction_potfiles_folder)
          /\ Under(fs, conduction_potfiles_folder)
               = {StagedPath(atoms[i]) : i \in 1..Len(atoms)}
          /\ \A i \in 1..Len(atoms) :
                /\ IsFile(fs0, SourcePath(atoms[i]))
                /\ fs[StagedPath(atoms[i])] = fs0[SourcePath(atoms[i])]
    /\ (stages # <<>> /\ \E i \in 1..Len(atoms) : ~IsFile(fs0, SourcePath(atoms[i])))
          => (pc = "raised" /\ stages = <<Stage("SETUP", 0)>>)

C8_FolderReplaced ==
    /\ pc = "select"
    /\ Len(atoms) = 2
    /\ Under(fs0, conduction_potfiles_folder) # {}

(***************************************************************************)
(* Properties of direct calls.                                             *)
(***************************************************************************)
CalledFolder == MkpotcarFolder(call.symbol, call.orbital)
AllPotfilesStaged(f) == \A i \in 1..Len(atoms) : IsFile(f, StagedPath(atoms[i]))
Positions(op, path) == {k \in 1..Len(calls) : calls[k].op = op /\ calls[k].path = path}

\* C6: an evaluation that rewrote the potential file of its atom, all atoms'
\* potential files being staged, then invokes the Runner exactly once on the
\* directory of the evaluation and extracts the gap from that directory
\* after the Runner has run, unless the Runner fails.
C6_EvaluationRunsSolverOnce ==
    (/\ count > 0
     /\ call.op = "find_band_gap"
     /\ AllPotfilesStaged(fs0)
     /\ Positions("write_potfile", PotfilePath(call.symbol)) # {}) =>
       /\ Cardinality(Positions("runner", CutFolder(CalledFolder, call.n))) = 1
       /\ \A w \in Positions("write_potfile", PotfilePath(call.symbol)),
             r \in Positions("runner", CutFolder(CalledFolder, call.n)) : w < r
       /\ \/ raised = "RunnerError"
          \/ \E r \in Positions("runner", CutFolder(CalledFolder, call.n)),
                e \in Positions("extract", CutFolder(CalledFolder, call.n)) : r < e

\* C7: after BUILD_PSEUDOPOTENTIAL of a target whose atom is known, the
\* working directory of the target exists and nothing in it is left from
\* before the step.
C7_StagingRecreatesDirectory ==
    (/\ count > 0
     /\ call.op = "_find_best_correction"
     /\ Len(stages) >= 1) =>
       /\ IsDirectory(fs, CalledFolder)
       /\ Under(fs, CalledFolder) \cap Under(fs0, CalledFolder) = {}

\* C9 as stated: two evaluations use the same directory only if they are for
\* the same target and the same cut radius.
C9_SameDirectorySameCut ==
    \A e1, e2 \in evals :
       e1.dir = e2.dir =>
          e1.symbol = e2.symbol /\ e1.orbital = e2.orbital /\ e1.cut = e2.cut

\* C9: two evaluations use the same directory only if they are for the same
\* target and their cut radii are equal when rounded to two decimals;
\* evaluations of distinct targets, and of cut radii that differ in their
\* first two decimals, use distinct directories.
C9_SameDirectorySameRoundedCut ==
    \A e1, e2 \in evals :
       e1.dir = e2.dir <=>
          (e1.symbol = e2.symbol /\ e1.orbital = e2.orbital
           /\ Hundredths(e1.cut) = Hundredths(e2.cut))

C9_TwoCutsOneDirectory ==
    \E e1, e2 \in evals : e1.cut # e2.cut /\ e1.dir = e2.dir

\* the paths whose node the last call created, removed or changed
Changed ==
    {p \in DOMAIN fs \cup DOMAIN fs0 :
        ~(p \in DOMAIN fs /\ p \in DOMAIN fs0 /\ fs[p] = fs0[p])}
\* the files the processing of target t reads: its working tree and the
\* staged potential files of all atoms
ReadBy(t, p) ==
    \/ IsPrefix(MkpotcarFolder(t[1], t[2]), p)
    \/ \E i \in 1..Len(atoms) : p = StagedPath(atoms[i])

\* C10 as stated: a call made for one target changes no file that the
\* processing of another target reads.
C10_NoFileOfAnotherTargetChanged ==
    count > 0 =>
       \A t \in CallTargets \ {<<call.symbol, call.orbital>>} :
          \A p \in Changed : ~ReadBy(t, p)

\* C10: a call made for one target changes nothing outside the working tree
\* of the target except the staged potential file of the atom of the target,
\* so the only file of another target's input it changes is that one.
C10_ChangesOwnTreeAndOwnPotfile ==
    count > 0 =>
       \A p \in Changed :
          IsPrefix(CalledFolder, p) \/ p = PotfilePath(call.symbol)

C10_PotfileAndTreeChanged ==
    /\ count > 0
    /\ call.op = "find_band_gap"
    /\ PotfilePath(call.symbol) \in Changed
    /\ \E p \in Changed : IsPrefix(CalledFolder, p)

(***************************************************************************)
(* Properties of ternary_search.                                           *)
(***************************************************************************)
SearchEnded == search.pc \in {"done", "raised"}

\* every interval of the search lies inside the one before it, is strictly
\* narrower and keeps one end, the other end being a third point
Narrowing ==
    \A k \in 1..(Len(search.intervals) - 1) :
       LET a == search.intervals[k]
           b == search.intervals[k + 1]
       IN /\ a[1] <= b[1] /\ b[2] <= a[2]
          /\ b[2] - b[1] < a[2] - a[1]
          /\ b \in {<<LeftThird(a[1], a[2]), a[2]>>, <<a[1], RightThird(a[1], a[2])>>}

\* the two points of iteration k are the thirds of the interval of iteration
\* k, and the side of the smaller value is the one discarded
ThirdsEvaluated ==
    \A k \in 1..(Len(search.intervals) - 1) :
       LET a == search.intervals[k]
           b == search.intervals[k + 1]
           l == search.observed[2 * k - 1]
           r == search.observed[2 * k]
       IN /\ l[1] = LeftThird(a[1], a[2])
          /\ r[1] = RightThird(a[1], a[2])
          /\ l[2] < r[2] => b[1] = l[1]
          /\ l[2] > r[2] => b[2] = r[1]

\* C11: the search terminates when the objective returns: every iteration
\* evaluates the objective at the thirds of the interval and discards the
\* third on the side of the smaller value, the interval strictly shrinks and
\* stays inside [low, high], the iterations stay within the budget, and the
\* search returns only with a width below the tolerance or the budget used.
C11_SearchShrinksAndTerminates ==
    /\ [](/\ Narrowing
          /\ ThirdsEvaluated
          /\ search.iter <= MaxIterations
          /\ search.pc = "done" => SearchDone(search))
    /\ <>SearchEnded

C11_StoppedByTolerance ==
    /\ search.pc = "done"
    /\ search.iter >= 1
    /\ search.iter < MaxIterations
    /\ search.high - search.low < Tolerance

\* C12: when the search returns, the pair it returns was observed in this
\* search and no observed value is larger than the value returned.
C12_ReturnsBestObserved ==
    search.pc = "done" =>
       /\ \E k \in 1..Len(search.observed) : search.observed[k] = search.best
       /\ \A k \in 1..Len(search.observed) : search.observed[k][2] <= search.best[2]

C12_LaterPointWasBest ==
    /\ search.pc = "done"
    /\ Len(search.observed) = 4
    /\ search.best = search.observed[3]
    /\ search.observed[1][2] < 0
    /\ search.best[2] = 0

(***************************************************************************)
(* Properties of InputFile.electron_occupation.                            *)
(***************************************************************************)
OccupationCalled == input_file.n > 0 /\ input_file.op.name = "electron_occupation"

NearZero(x) == -Atol <= x /\ x <= Atol

\* the orbitals of layer l before the call, those among them that are not
\* exactly 0, and those that are not ~0
OfLayer == {i \in DOMAIN input_file.before.valence_orbitals :
               input_file.before.valence_orbitals[i].l = input_file.op.b}
NonZero == {i \in OfLayer : input_file.before.valence_orbitals[i].occupation[1] # 0}
NotExhausted ==
    {i \in OfLayer : ~NearZero(input_file.before.valence_orbitals[i].occupation[1])}

\* the call succeeded and changed nothing but the first occupation of
\* orbital i, which it decreased by the fraction
DecreasedOnly(i) ==
    /\ input_file.exc = "none"
    /\ input_file.obj =
         [input_file.before EXCEPT
            !.valence_orbitals[i].occupation[1] = @ - input_file.op.a]

Last(S) == CHOOSE i \in S : \A j \in S : j <= i

\* C13 as stated: with exactly one orbital of the layer whose first
\* occupation is non-zero, electron_occupation decreases that component by
\* exactly the fraction and leaves everything else unchanged.
C13_DecreasesTheNonZeroOrbital ==
    (OccupationCalled /\ Cardinality(NonZero) = 1)
        => \E i \in NonZero : DecreasedOnly(i)

\* C13: with exactly one orbital of the layer whose first occupation is not
\* ~0 (further than 1e-8 from 0), electron_occupation decreases that
\* component by exactly the fraction and leaves everything else unchanged.
C13_DecreasesTheOnlyOrbitalLeft ==
    (OccupationCalled /\ Cardinality(NotExhausted) = 1)
        => \E i \in NotExhausted : DecreasedOnly(i)

C13_OneOrbitalDecreased ==
    /\ OccupationCalled
    /\ Cardinality(NotExhausted) = 1
    /\ Len(input_file.before.valence_orbitals) = 3
    /\ input_file.exc = "none"
    /\ \E i \in NotExhausted :
          input_file.obj.valence_orbitals[i].occupation[1] =
              input_file.before.valence_orbitals[i].occupation[1] - input_file.op.a

\* C14: when no orbital of the layer has a first occupation that is not ~0
\* (the list is empty, has no orbital of the layer, or all of them are
\* exhausted), electron_occupation raises the occupation error and changes
\* no occupation.
C14_RaisesWhenNothingLeft ==
    (OccupationCalled /\ NotExhausted = {})
        => /\ input_file.exc = "Exception: Trouble with occupation"
           /\ input_file.obj = input_file.before

C14_AllExhausted ==
    /\ OccupationCalled
    /\ OfLayer # {}
    /\ NotExhausted = {}
    /\ input_file.exc # "none"

\* C15: with several orbitals of the layer, electron_occupation changes
\* exactly one, the last in list order whose first occupation is not ~0; a
\* later orbital that is exhausted is skipped, and an earlier one is reached
\* only once every later one is ~0.
C15_ChangesLastOrbitalLeft ==
    (OccupationCalled /\ Cardinality(OfLayer) >= 2 /\ NotExhausted # {})
        => DecreasedOnly(Last(NotExhausted))

C15_MovedToEarlierOrbital ==
    /\ OccupationCalled
    /\ input_file.n = 2
    /\ input_file.exc = "none"
    /\ \E i \in NotExhausted, j \in OfLayer :
          /\ i < j
          /\ input_file.initial.valence_orbitals[j].occupation[1] = Half
          /\ input_file.before.valence_orbitals[j].occupation[1] = 0
          /\ input_file.obj.valence_orbitals[i].occupation[1] =
                input_file.before.valence_orbitals[i].occupation[1] - input_file.op.a

(***************************************************************************)
(* Properties of the validated fields of InputFile.                        *)
(***************************************************************************)
\* the nine codes, with or without the relativistic marker in front and the
\* spin marker behind
XcValid == {p \o code \o t : p \in {<<>>, <<"r">>}, code \in XcCodes,
                             t \in {<<>>, <<"s">>}}

XcError == ValueError("Your value of exchange and correlation functional is not valid")

XcGiven == /\ input_file.op # None
           /\ input_file.op.name \in {"InputFile", "exchange_correlation_type"}

\* C16: the validator accepts a string if and only if it is one of the nine
\* codes, optionally with the relativistic marker in front and/or the spin
\* marker behind; every other string, a code followed by more characters
\* included, is rejected with the error and not stored.
C16_AcceptsExactlyMarkedCodes ==
    XcGiven =>
        IF input_file.op.a \in XcValid
        THEN /\ input_file.exc # XcError
             /\ input_file.exc = "none"
                    => input_file.obj.exchange_correlation_type = input_file.op.a
        ELSE /\ input_file.exc = XcError
             /\ input_file.obj = input_file.before

\* C17: the calculation_code of every instance, after its construction and
\* after any assignments, is "ae".
C17_CalculationCodeIsAe ==
    input_file.obj # None => input_file.obj.calculation_code = <<"a", "e">>

(***************************************************************************)
(* Properties of the INP file.                                             *)
(***************************************************************************)
\* C18: a file that minimum_setup and to_file wrote is parsed by from_file,
\* and to_stringlist of the parsed instance gives exactly the lines that were
\* written.
C18_RoundTrip ==
    input_file.op # None =>
        /\ (input_file.op.name = "from_file" /\ input_file.op.a = "to_file")
              => input_file.exc = "none"
        /\ (input_file.op.name = "to_stringlist" /\ input_file.op.a = "to_file")
              => input_file.lines = input_file.written

ParseError(group) ==
    CASE group = "header" -> {NoHeader}
      [] group = "symbol" -> {NoSymbol}
      [] group = "esoteric" -> {NoHeader, NoSymbol, NoCounts, NoOrbitals}
      [] group = "counts" -> {NoCounts}
      [] group = "orbitals" -> {NoOrbitals}

\* C19: from_file of a file with a missing or malformed field group raises
\* the parse error of that group (for the esoteric line, which has no message
\* of its own, any of the parse errors) and returns no instance.
C19_ParseErrorNamesGroup ==
    (/\ input_file.op # None
     /\ input_file.op.name = "from_file"
     /\ input_file.op.a = "write")
        => /\ input_file.exc \in ParseError(input_file.op.b)
           /\ input_file.obj = None

(***************************************************************************)
(* Properties of Vtotal.from_file.                                         *)
(***************************************************************************)
MarkerAbsent(kind) == \A k \in DOMAIN vtotal.file : vtotal.file[k] # kind

\* C20: from_file of a file without the "Down potential follows" marker, or
\* without the "Up potential follows" marker, raises a format error, and no
\* Vtotal is ever returned whose radius or potential is missing.
C20_MissingMarkerRaises ==
    vtotal.parsed =>
        /\ (MarkerAbsent("down") \/ MarkerAbsent("up"))
              => /\ vtotal.exc \in {NoPotential,
                                    ValueError("could not convert string to float")}
                 /\ vtotal.obj = None
        /\ vtotal.obj # None
              => /\ vtotal.obj.radius # NoArray
                 /\ vtotal.obj.down_potential # NoArray

\* the numbers that the lines of a kind hold
ValuesOf(kind) ==
    CASE kind = "numbers" -> <<Half, One + Quarter>>
      [] kind = "more" -> <<2 * One>>
      [] kind = "spin" -> <<0>>

RECURSIVE TableValues(_, _, _)
\* the numbers of the lines first..last of a file, in the order of the file
TableValues(file, first, last) ==
    IF first > last THEN <<>>
    ELSE ValuesOf(file[first]) \o TableValues(file, first + 1, last)

FirstLine(kind) ==
    CHOOSE k \in DOMAIN vtotal.file :
        vtotal.file[k] = kind /\ \A j \in 1..(k - 1) : vtotal.file[j] # kind

\* a header line, the radii, the marker of the down potential, one header
\* line, the table, the marker of the up potential
WellFormed ==
    /\ vtotal.file # <<>>
    /\ vtotal.file[1] = "title"
    /\ ~MarkerAbsent("down")
    /\ ~MarkerAbsent("up")
    /\ FirstLine("up") >= FirstLine("down") + 2
    /\ \A k \in 2..(FirstLine("up") - 1) :
          k \notin {FirstLine("down"), FirstLine("down") + 1}
              => vtotal.file[k] \in {"numbers", "more", "spin"}

\* C21: from_file of a well-formed file returns as radius the numbers of the lines after the first line and before
\* the Down marker, and as down potential the numbers of the lines after the
\* line that follows the Down marker and before the Up marker, in file order.
C21_TablesBetweenMarkers ==
    (vtotal.parsed /\ WellFormed)
        => /\ vtotal.exc = "none"
           /\ vtotal.obj # None
           /\ vtotal.obj.radius =
                 Array(TableValues(vtotal.file, 2, FirstLine("down") - 1))
           /\ vtotal.obj.down_potential =
                 Array(TableValues(vtotal.file, FirstLine("down") + 2,
                                   FirstLine("up") - 1))

\* the eigenvalues of the table under report
EigenvaluesRead ==
    {band_structure.eigenvalues[a] : a \in DOMAIN band_structure.eigenvalues}

\* C22: for an eigenvalue table with an eigenvalue on each side of the Fermi
\* energy, the report that the band_gap command echoes has as VBM the highest
\* eigenvalue at or below the Fermi energy, as CBM the lowest eigenvalue
\* above it, and as gap CBM minus VBM, so that VBM <= Fermi energy < CBM, and
\* the gap echoed is that difference
C22_GapBetweenBandEdges ==
    (band_structure # None /\ band_structure.caller # "none") =>
        LET vbm == band_structure.gap_report.vbm.eigenvalue
            cbm == band_structure.gap_report.cbm.eigenvalue
            fermi_energy == band_structure.fermi_energy
        IN /\ vbm \in EigenvaluesRead
           /\ cbm \in EigenvaluesRead
           /\ vbm <= fermi_energy
           /\ fermi_energy < cbm
           /\ \A e \in EigenvaluesRead : e <= fermi_energy => e <= vbm
           /\ \A e \in EigenvaluesRead : e > fermi_energy => e >= cbm
           /\ band_structure.gap_report.gap = cbm - vbm
           /\ band_structure.echoed[1] = band_structure.gap_report.vbm
           /\ band_structure.echoed[2] = band_structure.gap_report.cbm
           /\ band_structure.echoed[3] = GapLine(cbm - vbm)

\* the command echoed the gap of a table with an eigenvalue at the Fermi
\* energy and eigenvalues further away on both sides
C22_GapOfEdgeAtFermi ==
    /\ band_structure # None
    /\ band_structure.caller = "band_gap"
    /\ band_structure.fermi_energy = 0
    /\ EigenvaluesRead = Energies
    /\ band_structure.gap_report.vbm.eigenvalue = 0
    /\ band_structure.echoed[3]
          = <<"G", "a", "p", ":", " ", "0", ".", "2", "5", "1", "e", "V">>

(***************************************************************************)
(* Properties of the objective and of the result of execute().             *)
(***************************************************************************)
RECURSIVE Joined(_, _, _)
\* what the potential files of the atoms from number i on hold, one after
\* another
Joined(f, as, i) ==
    IF i > Len(as) THEN <<>>
    ELSE f[StagedPath(as[i])].data \o Joined(f, as, i + 1)

InputsPresent(f) == \A i \in 1..Len(vasp_files) : IsFile(f, <<vasp_files[i]>>)

\* C23: an evaluation that finds the solver inputs, the potential files of
\* all atoms and its find_cut folder invokes the Runner in the directory of
\* the cut, and that directory then holds the copies of INCAR, KPOINTS and
\* POSCAR and the joined potential file, which is what the potential files of
\* the atoms hold, in the order of the atom list, the one of the atom of the
\* target corrected for the cut.  (The Runner adds its own output to the
\* directory and changes nothing else, so the directory is compared as the
\* evaluation leaves it.)
C23_RunnerSeesJoinedPotential ==
    (/\ count > 0
     /\ call.op = "find_band_gap"
     /\ AllPotfilesStaged(fs0)
     /\ InputsPresent(fs0)
     /\ IsDirectory(fs0, Join(CalledFolder, "find_cut"))) =>
       LET cut_folder == CutFolder(CalledFolder, call.n)
       IN /\ Positions("runner", cut_folder) # {}
          /\ \A i \in 1..Len(vasp_files) :
                /\ IsFile(fs, Join(cut_folder, vasp_files[i]))
                /\ fs[Join(cut_folder, vasp_files[i])] = fs0[<<vasp_files[i]>>]
          /\ fs[StagedPath(Format(call.symbol))].data
                = CorrectedLines(AtomicPotential(call.symbol), call.n)
          /\ IsFile(fs, Join(cut_folder, Upper(potential_filename)))
          /\ fs[Join(cut_folder, Upper(potential_filename))].data
                = Joined(fs, atoms, 1)

\* no cell of the projection table reaches the threshold
NoPairMeetsThreshold ==
    \A a \in Range(cbm_projection.columns), b \in Range(cbm_projection.index) :
        Loc(cbm_projection, a, b) < minimum_percentual

\* C24: every pass of the loop of execute leaves in gap the gap that the
\* search of its target returned, the return passes gap on as the last pass
\* left it, after the last target of the plan, and a run whose table has no
\* pair at the threshold returns the empty mapping and the gap 0.
C24_ReturnsGapOfLastTarget ==
    /\ [][(pc = "loop" /\ pc' = "loop") =>
            \E env \in Environments :
               LET r == FindBestCorrection(fs, cbm_projection,
                                           sum_correction_percentual,
                                           Targets[target][1], Targets[target][2],
                                           atoms, env)
               IN r.exc = "none" /\ gap' = r.value[2] /\ target' = target + 1]_vars
    /\ [][(pc = "loop" /\ pc' = "done") =>
            (target > Len(Targets) /\ gap' = gap
             /\ cuts_per_atom_orbital' = cuts_per_atom_orbital)]_vars
    /\ []((/\ pc \in {"done", "raised"}
           /\ Len(stages) >= 2
           /\ NoPairMeetsThreshold) =>
             (pc = "done" /\ cuts_per_atom_orbital = <<>> /\ gap = 0))

\* C25: an evaluation, or a search of evaluations, for a target changes in
\* the conduction potfiles folder nothing but the potential file of the atom
\* of the target: the folder itself and the potential file of every other
\* atom are after it as they were before it, whatever calls came before.
C25_OnlyOwnPotfileChanges ==
    (count > 0 /\ call.op \in {"find_band_gap", "_find_cut"}) =>
       /\ \A q \in Changed :
             IsPrefix(conduction_potfiles_folder, q)
                => q = StagedPath(Format(call.symbol))
       /\ \A i \in 1..Len(atoms) :
             (/\ StagedPath(atoms[i]) # StagedPath(Format(call.symbol))
              /\ Exists(fs0, StagedPath(atoms[i]))) =>
                 /\ Exists(fs, StagedPath(atoms[i]))
                 /\ fs[StagedPath(atoms[i])] = fs0[StagedPath(atoms[i])]

\* a second evaluation rewrote the potential file of Ga and left that of N
C25_OwnPotfileRewritten ==
    /\ count >= 2
    /\ call.op = "find_band_gap"
    /\ call.symbol = StrV("Ga")
    /\ StagedPath("Ga") \in Changed
    /\ IsFile(fs, StagedPath("Ga"))
    /\ fs[StagedPath("Ga")].data = CorrectedLines(AtomicPotential(call.symbol), call.n)
    /\ IsFile(fs0, StagedPath("N"))
    /\ fs[StagedPath("N")] = fs0[StagedPath("N")]
====
